---- MODULE Spec2Model ----
(***************************************************************************)
(* gopi: the load-generation engine (lib/runner) and the statistics        *)
(* reduction (lib/stats), modelled as state machines.                       *)
(*                                                                          *)
(*   RunSpec       Runner.Run: the fixed worker pool (producer, W workers,  *)
(*                 the closer goroutine, the collecting caller).            *)
(*   RunFairSpec   RunSpec with the fairness of Go's scheduler.             *)
(*   UserLoadSpec  Runner.RunUserLoadTest: the ramp controller and the      *)
(*                 virtual users of each step.                              *)
(*   CalculateSpec stats.Calculate applied to bounded Result sequences.     *)
(*                                                                          *)
(* Task headers and bodies, wall-clock timestamps and log lines have no     *)
(* effect on control flow and are left out of the records.                  *)
(***************************************************************************)
EXTENDS Integers, Sequences, FiniteSets, TLC

(* ------------------------------ bounds --------------------------------- *)
\* Runner.Run: at most MaxAttempts requests (tasks times repetitions) and MaxWorkers workers.
MaxAttempts == 4
MaxWorkers == 2
\* Runner.RunUserLoadTest: config.StartUsers, config.MaxUsers and config.StepUsers range
\* over 1..MaxStartUsers, 1..MaxMaxUsers and 1..MaxStepUsers; the largest result buffer
\* (config.MaxUsers times the number of endpoints) holds MaxBufferCap Results.
MaxStartUsers == 3
MaxMaxUsers == 2
MaxStepUsers == 2
MaxBufferCap == 2
\* stats.Calculate: Result sequences of at most MaxResults Results whose durations range
\* over 1..MaxDuration (in milliseconds).
MaxResults == 3
MaxDuration == 2

(* ---------------------------- data model ------------------------------- *)
\* "G T" is no HTTP method (a space is no token character): http.NewRequest rejects it.
Methods == {"GET", "POST", "G T"}
URLs == {"/a", "/b"}
ValidMethod(m) == m \in {"GET", "POST"}

Task == [Method : Methods, URL : URLs]

NoError == "nil"
ErrNewRequest == "newrequest"
ErrTransport == "transport"

\* What one attempt of a task can end in: http.NewRequest fails (no duration is taken),
\* client.Do fails (a duration is taken), or a response arrives.
RunOutcomes(task) ==
    IF ~ValidMethod(task.Method)
    THEN { [StatusCode |-> 0, Duration |-> 0, Error |-> ErrNewRequest] }
    ELSE { [StatusCode |-> 0, Duration |-> 1, Error |-> ErrTransport],
           [StatusCode |-> 200, Duration |-> 1, Error |-> NoError] }

\* The same three endings in executeRequest. During a load test the server answers on
\* /a and is unreachable on /b.
UserOutcomes(task) ==
    { o \in RunOutcomes(task) :
        o.Error = ErrNewRequest \/ ((o.Error = ErrTransport) <=> (task.URL = "/b")) }

MakeResult(task, outcome, threadID) ==
    [URL |-> task.URL, Method |-> task.Method,
     StatusCode |-> outcome.StatusCode, Duration |-> outcome.Duration,
     Error |-> outcome.Error, ThreadID |-> threadID]

NoTask == [Method |-> "", URL |-> ""]
NoResult == [URL |-> "", Method |-> "", StatusCode |-> 0, Duration |-> 0,
             Error |-> NoError, ThreadID |-> 0]

\* The endpoint lists the runs are given: prefixes of GET /a, G T /a, POST /b, GET /a, ...
\* (a well-formed endpoint, a malformed one, a second URL, then a repeated endpoint).
CatalogTask(i) ==
    [Method |-> IF i % 3 = 1 THEN "GET" ELSE IF i % 3 = 2 THEN "G T" ELSE "POST",
     URL |-> IF i % 3 = 0 THEN "/b" ELSE "/a"]
TaskList(n) == [i \in 1..n |-> CatalogTask(i)]

(* ------------------------------ state ---------------------------------- *)
VARIABLES
    \* Runner
    tasks,              \* r.tasks
    workerCount,        \* r.workerCount
    requestCount,       \* r.requestCount
    \* Runner.Run
    runPc,              \* where Run's own goroutine is
    launched,           \* the worker launch loop's i
    wg,                 \* the WaitGroup counter
    taskChanClosed,     \* close(taskChan) has happened
    resultChanCloses,   \* how many times resultChan was closed
    producerPc,         \* the producer goroutine
    prodTask,           \* the producer's index into r.tasks (1-based)
    prodI,              \* the producer's inner i
    closerPc,           \* the goroutine that waits and closes resultChan
    reporterPc,         \* the progress goroutine
    workerPc,           \* each worker's position
    workerTask,         \* the task a worker dequeued
    workerResult,       \* the Result a worker is about to send
    results,            \* Run's results slice
    completedRequests,  \* Run's completedRequests
    transportLog,       \* the transport's record: attempts and failures per endpoint
    panicked,           \* a goroutine panicked: the process is gone
    \* Runner.RunUserLoadTest
    config,             \* the UserLoadConfig
    ctlPc,              \* where RunUserLoadTest's own goroutine is
    currentUsers,       \* currentUsers
    stepNumber,         \* stepNumber
    ctxState,           \* the step context: "none", "armed" or "done"
    bufChan,            \* the step's resultChan: its buffered Results
    bufCap,             \* its capacity
    bufCloses,          \* how many times it was closed
    userLaunched,       \* the user launch loop's i
    userWg,             \* the step's WaitGroup counter
    activeUsers,        \* the step's activeUsers counter
    totalRequests,      \* the step's totalRequests counter
    userPc,             \* each virtual user's position
    userResult,         \* the Result a user got from executeRequest
    stepResults,        \* stepResults
    loadResults,        \* RunUserLoadTest's results slice
    \* stats.Calculate
    calcInput,          \* the results argument
    calcPc,             \* "idle", "collecting" or "done"
    calcOutput,         \* what the call ended in: the Statistics, or a panic
    \* the percentage-change functions
    pctCurrent,         \* the argument current
    pctPrevious,        \* the argument previous
    pctPc,              \* "idle", "called" or "done"
    pctResult,          \* what each of the three copies returned
    \* history.Store
    thresholdPct,       \* s.thresholdPct
    storeFiles,         \* the run files of s.baseDir: run ID -> file content
    storeSummary,       \* the content of summary.json, or NoFile
    now,                \* the wall clock, in seconds
    saves,              \* how many SaveResults calls have been made
    lastPrevious,       \* the baseline the last SaveResults call loaded, or NoHistory
    lastHistory,        \* the TestHistory the last SaveResults call built
    lastErr,            \* the error the last SaveResults call returned
    \* Runner.RunDataLoadTest
    dataConfig,         \* the DataLoadConfig
    dataPc,             \* where RunDataLoadTest is: "idle", "loop", "running" or "returned"
    dataStep,           \* step
    currentSize,        \* currentSize
    originalRequestCount, \* originalRequestCount of the step under way
    dataResults,        \* RunDataLoadTest's results slice
    \* stats.CalculateLoadTest
    ltInput,            \* the results argument: one LoadTestResult per step
    ltPc,               \* "idle", "collecting" or "done"
    ltOutput            \* the LoadTestStats returned

runVars == <<tasks, workerCount, requestCount, runPc, launched, wg, taskChanClosed,
             resultChanCloses, producerPc, prodTask, prodI, closerPc, reporterPc,
             workerPc, workerTask, workerResult, results, completedRequests,
             transportLog, panicked>>

runnerVars == <<tasks, workerCount, requestCount>>
producerVars == <<producerPc, prodTask, prodI, taskChanClosed>>
workerVars == <<workerPc, workerTask, workerResult>>
collectVars == <<results, completedRequests>>

stepVars == <<ctxState, bufChan, bufCap, bufCloses, userLaunched, userWg, activeUsers,
              totalRequests, userPc, userResult, stepResults>>
loadVars == <<config, ctlPc, currentUsers, stepNumber, stepVars, loadResults>>

\* What the actions of one operation leave alone of the others.
runLocals == <<runPc, launched, wg, taskChanClosed, resultChanCloses, producerPc, prodTask,
               prodI, closerPc, reporterPc, workerPc, workerTask, workerResult, results,
               completedRequests, transportLog>>
calcVars == <<calcInput, calcPc, calcOutput>>
pctVars == <<pctCurrent, pctPrevious, pctPc, pctResult>>
histVars ==
    <<thresholdPct, storeFiles, storeSummary, now, saves, lastPrevious, lastHistory, lastErr>>
dataVars ==
    <<dataConfig, dataPc, dataStep, currentSize, originalRequestCount, dataResults>>
ltVars == <<ltInput, ltPc, ltOutput>>
notRun == <<loadVars, calcVars, pctVars, histVars, dataVars, ltVars>>
notLoad == <<workerCount, requestCount, runLocals, calcVars, pctVars, histVars, dataVars,
             ltVars>>
notCalc == <<runVars, loadVars, pctVars, histVars, dataVars, ltVars>>
notPct == <<runVars, loadVars, calcVars, histVars, dataVars, ltVars>>
notHist == <<runVars, loadVars, calcVars, pctVars, dataVars, ltVars>>
notData == <<loadVars, calcVars, pctVars, histVars, ltVars>>
notLt == <<runVars, loadVars, calcVars, pctVars, histVars, dataVars>>

vars == <<runVars, loadVars, calcVars, pctVars, histVars, dataVars, ltVars>>

Workers == 1..MaxWorkers
Endpoints == Methods \X URLs
EndpointOf(x) == <<x.Method, x.URL>>

(* --------------------------- Runner.Run -------------------------------- *)
\* The locals of Run before its first statement, with room for the workers of `pool`.
RunLocals(pool) ==
    /\ runPc = "launch"
    /\ launched = 0
    /\ wg = 0
    /\ taskChanClosed = FALSE
    /\ resultChanCloses = 0
    /\ producerPc = "idle"
    /\ prodTask = 1
    /\ prodI = 0
    /\ closerPc = "idle"
    /\ reporterPc = "idle"
    /\ workerPc = [w \in pool |-> "idle"]
    /\ workerTask = [w \in pool |-> NoTask]
    /\ workerResult = [w \in pool |-> NoResult]
    /\ results = <<>>
    /\ completedRequests = 0
    /\ transportLog = [e \in Endpoints |-> [attempts |-> 0, failures |-> 0]]

RunLocalsInit == RunLocals(Workers)

UserIDs == 0..(MaxMaxUsers - 1)

\* RunUserLoadTest has not been called.
LoadIdle ==
    /\ config = [StartUsers |-> 1, MaxUsers |-> 1, StepUsers |-> 1]
    /\ ctlPc = "idle"
    /\ currentUsers = 0
    /\ stepNumber = 0
    /\ ctxState = "none"
    /\ bufChan = <<>>
    /\ bufCap = 0
    /\ bufCloses = 0
    /\ userLaunched = 0
    /\ userWg = 0
    /\ activeUsers = 0
    /\ totalRequests = 0
    /\ userPc = [u \in UserIDs |-> "idle"]
    /\ userResult = [u \in UserIDs |-> NoResult]
    /\ stepResults = <<>>
    /\ loadResults = <<>>

\* What a call that has not ended holds in place of its outcome, and what a call that
\* panicked (a run-time error unwinding Calculate) ends in.
NoStatistics == [none |-> TRUE]
CalcPanic == [panic |-> TRUE]

\* Calculate has not been called.
CalcIdle ==
    /\ calcInput = <<>>
    /\ calcPc = "idle"
    /\ calcOutput = NoStatistics

\* What stands for a file that does not exist, a call that has not returned, no error.
NoFile == [none |-> TRUE]
NoHistory == [none |-> TRUE]
NoErr == "nil"

\* No percentage-change function has been called.
PercentIdle ==
    /\ pctCurrent = 0
    /\ pctPrevious = 0
    /\ pctPc = "idle"
    /\ pctResult = <<>>

\* No history store has been opened.
HistoryIdle ==
    /\ thresholdPct = 0
    /\ storeFiles = [id \in {} |-> NoFile]
    /\ storeSummary = NoFile
    /\ now = 0
    /\ saves = 0
    /\ lastPrevious = NoHistory
    /\ lastHistory = NoHistory
    /\ lastErr = NoErr

\* RunDataLoadTest has not been called.
DataIdle ==
    /\ dataConfig = [InitialDataSize |-> 0, MaxDataSize |-> 0,
                     DataSizeMultiplier |-> [num |-> 1, den |-> 1], StepsCount |-> 0]
    /\ dataPc = "idle"
    /\ dataStep = 0
    /\ currentSize = 0
    /\ originalRequestCount = 0
    /\ dataResults = <<>>

\* CalculateLoadTest has not been called.
LoadStatsIdle ==
    /\ ltInput = <<>>
    /\ ltPc = "idle"
    /\ ltOutput = NoStatistics

RunInit ==
    /\ tasks \in { TaskList(n) : n \in 0..MaxAttempts }
    /\ workerCount \in 0..MaxWorkers
    /\ requestCount \in 0..MaxAttempts
    /\ Len(tasks) * requestCount <= MaxAttempts
    /\ RunLocalsInit
    /\ panicked = FALSE
    /\ LoadIdle
    /\ CalcIdle
    /\ PercentIdle
    /\ HistoryIdle
    /\ DataIdle
    /\ LoadStatsIdle

\* for i := 0; i < r.workerCount; i++ { wg.Add(1); go r.worker(...) }
RunLaunchWorker ==
    /\ ~panicked
    /\ runPc = "launch"
    /\ launched < workerCount
    /\ wg' = wg + 1
    /\ workerPc' = [workerPc EXCEPT ![launched + 1] = "recv"]
    /\ launched' = launched + 1
    /\ UNCHANGED <<runnerVars, producerVars, collectVars, runPc, resultChanCloses,
                   closerPc, reporterPc, workerTask, workerResult, transportLog, panicked>>
    /\ UNCHANGED notRun

\* go func() { wg.Wait(); close(resultChan) }()
RunGoCloser ==
    /\ ~panicked
    /\ runPc = "launch"
    /\ launched >= workerCount
    /\ closerPc' = "wait"
    /\ runPc' = "goProducer"
    /\ UNCHANGED <<runnerVars, producerVars, workerVars, collectVars, launched, wg,
                   resultChanCloses, reporterPc, transportLog, panicked>>
    /\ UNCHANGED notRun

\* go func() { for _, task := range r.tasks { ... }; close(taskChan) }()
RunGoProducer ==
    /\ ~panicked
    /\ runPc = "goProducer"
    /\ producerPc' = "loop"
    /\ runPc' = "goReporter"
    /\ UNCHANGED <<runnerVars, workerVars, collectVars, prodTask, prodI, taskChanClosed,
                   launched, wg, resultChanCloses, closerPc, reporterPc, transportLog,
                   panicked>>
    /\ UNCHANGED notRun

\* ticker := time.NewTicker(time.Second); go func() { for range ticker.C { log } }()
\* The goroutine only reads completedRequests for a log line.
RunGoReporter ==
    /\ ~panicked
    /\ runPc = "goReporter"
    /\ reporterPc' = "ticking"
    /\ runPc' = "collect"
    /\ UNCHANGED <<runnerVars, producerVars, workerVars, collectVars, launched, wg,
                   resultChanCloses, closerPc, transportLog, panicked>>
    /\ UNCHANGED notRun

\* wg.Wait() returns when the counter is zero.
CloserMayCloseUnguarded == TRUE
CloserMayClose == wg = 0

CloserClose ==
    /\ ~panicked
    /\ closerPc = "wait"
    /\ CloserMayClose
    /\ resultChanCloses' = resultChanCloses + 1
    /\ closerPc' = "done"
    /\ UNCHANGED <<runnerVars, producerVars, workerVars, collectVars, runPc, launched,
                   wg, reporterPc, transportLog, panicked>>
    /\ UNCHANGED notRun

\* for i := 0; i < r.requestCount; i++
ProducerHasMoreOffByOne == prodI <= requestCount
ProducerHasMore == prodI < requestCount

\* taskChan <- task, met by a worker's `for task := range tasks` (taskChan is unbuffered:
\* the send and the receive are one step).
TaskHandoff(w) ==
    /\ ~panicked
    /\ producerPc = "loop"
    /\ prodTask <= Len(tasks)
    /\ ProducerHasMore
    /\ workerPc[w] = "recv"
    /\ workerTask' = [workerTask EXCEPT ![w] = tasks[prodTask]]
    /\ workerPc' = [workerPc EXCEPT ![w] = "request"]
    /\ prodI' = prodI + 1
    /\ UNCHANGED <<runnerVars, collectVars, producerPc, prodTask, taskChanClosed, runPc,
                   launched, wg, resultChanCloses, closerPc, reporterPc, workerResult,
                   transportLog, panicked>>
    /\ UNCHANGED notRun

\* The inner loop is over: the next task of r.tasks.
ProducerNextTask ==
    /\ ~panicked
    /\ producerPc = "loop"
    /\ prodTask <= Len(tasks)
    /\ ~ProducerHasMore
    /\ prodTask' = prodTask + 1
    /\ prodI' = 0
    /\ UNCHANGED <<runnerVars, workerVars, collectVars, producerPc, taskChanClosed, runPc,
                   launched, wg, resultChanCloses, closerPc, reporterPc, transportLog,
                   panicked>>
    /\ UNCHANGED notRun

\* close(taskChan)
ProducerClose ==
    /\ ~panicked
    /\ producerPc = "loop"
    /\ prodTask > Len(tasks)
    /\ taskChanClosed' = TRUE
    /\ producerPc' = "done"
    /\ UNCHANGED <<runnerVars, workerVars, collectVars, prodTask, prodI, runPc, launched,
                   wg, resultChanCloses, closerPc, reporterPc, transportLog, panicked>>
    /\ UNCHANGED notRun

\* `for task := range tasks` ends on the closed channel; defer wg.Done().
WorkerExit(w) ==
    /\ ~panicked
    /\ workerPc[w] = "recv"
    /\ taskChanClosed
    /\ workerPc' = [workerPc EXCEPT ![w] = "done"]
    /\ wg' = wg - 1
    /\ UNCHANGED <<runnerVars, producerVars, collectVars, runPc, launched,
                   resultChanCloses, closerPc, reporterPc, workerTask, workerResult,
                   transportLog, panicked>>
    /\ UNCHANGED notRun

\* Where the worker goes once the attempt has ended in outcome o: every branch builds a
\* Result and sends it.
WorkerAfterAttemptSkipFailed(o) == IF o.Error # NoError THEN "recv" ELSE "send"
WorkerAfterAttempt(o) == "send"

LogAttempt(log, task, o) ==
    [log EXCEPT ![EndpointOf(task)] =
        [attempts |-> @.attempts + 1,
         failures |-> @.failures + (IF o.Error # NoError THEN 1 ELSE 0)]]

\* http.NewRequest, r.client.Do, and the Result of the branch taken.
WorkerAttempt(w, o) ==
    /\ ~panicked
    /\ workerPc[w] = "request"
    /\ workerResult' = [workerResult EXCEPT ![w] = MakeResult(workerTask[w], o, 0)]
    /\ transportLog' = LogAttempt(transportLog, workerTask[w], o)
    /\ workerPc' = [workerPc EXCEPT ![w] = WorkerAfterAttempt(o)]
    /\ UNCHANGED <<runnerVars, producerVars, collectVars, runPc, launched, wg,
                   resultChanCloses, closerPc, reporterPc, workerTask, panicked>>
    /\ UNCHANGED notRun

\* results <- Result{...}, met by Run's `for result := range resultChan` and its body
\* (resultChan is unbuffered). A send on a closed channel panics.
WorkerSend(w) ==
    /\ ~panicked
    /\ workerPc[w] = "send"
    /\ IF resultChanCloses > 0
       THEN /\ panicked' = TRUE
            /\ workerPc' = [workerPc EXCEPT ![w] = "panic"]
            /\ UNCHANGED <<collectVars, workerResult>>
       ELSE /\ runPc = "collect"
            /\ results' = Append(results, workerResult[w])
            /\ completedRequests' = completedRequests + 1
            /\ workerPc' = [workerPc EXCEPT ![w] = "recv"]
            /\ workerResult' = [workerResult EXCEPT ![w] = NoResult]
            /\ UNCHANGED panicked
    /\ UNCHANGED <<runnerVars, producerVars, runPc, launched, wg, resultChanCloses,
                   closerPc, reporterPc, workerTask, transportLog>>
    /\ UNCHANGED notRun

\* What the deferred ticker.Stop() leaves of the progress goroutine: Stop delivers no
\* further tick and does not close ticker.C, so `for range ticker.C` stays blocked.
ReporterAfterStop == "blocked"

\* The range over resultChan ends when the channel is closed; return results, with the
\* deferred ticker.Stop().
RunReturn ==
    /\ ~panicked
    /\ runPc = "collect"
    /\ resultChanCloses > 0
    /\ runPc' = "returned"
    /\ reporterPc' = ReporterAfterStop
    /\ UNCHANGED <<runnerVars, producerVars, workerVars, collectVars, launched, wg,
                   resultChanCloses, closerPc, transportLog, panicked>>
    /\ UNCHANGED notRun

RunMain == RunLaunchWorker \/ RunGoCloser \/ RunGoProducer \/ RunGoReporter \/ RunReturn
Producer == ProducerNextTask \/ ProducerClose
Worker(w) ==
    \/ TaskHandoff(w)
    \/ WorkerExit(w)
    \/ \E o \in RunOutcomes(workerTask[w]) : WorkerAttempt(w, o)
    \/ WorkerSend(w)

RunNext ==
    \/ RunMain
    \/ Producer
    \/ CloserClose
    \/ \E w \in DOMAIN workerPc : Worker(w)

RunSpec == RunInit /\ [][RunNext]_vars

\* Go schedules every runnable goroutine, and a goroutine blocked on a channel is woken
\* once its peer is there.
RunFairSpec ==
    /\ RunSpec
    /\ WF_vars(RunMain)
    /\ WF_vars(Producer)
    /\ WF_vars(CloserClose)
    /\ \A w \in Workers : WF_vars(Worker(w))

(* ----------------------- claims: Runner.Run ---------------------------- *)
ResultsOf(e) == { i \in 1..Len(results) : EndpointOf(results[i]) = e }
FailedResultsOf(e) == { i \in ResultsOf(e) : results[i].Error # NoError }
TasksOf(e) == { i \in 1..Len(tasks) : EndpointOf(tasks[i]) = e }
AllWorkersExited == \A w \in 1..workerCount : workerPc[w] = "done"

\* C1: with at least one worker, Run returns exactly N*R Results, and for every endpoint
\* the Results carrying its method and URL number R times the tasks of the list with
\* that method and URL (each task contributes R), whatever the interleaving.
C1_RunReturnsEveryRepetition ==
    (runPc = "returned" /\ workerCount >= 1) =>
        /\ Len(results) = Len(tasks) * requestCount
        /\ \A e \in Endpoints :
               Cardinality(ResultsOf(e)) = requestCount * Cardinality(TasksOf(e))

\* Two workers, two tasks, two repetitions, and the Results arrived out of task order.
C1_Witness ==
    /\ runPc = "returned"
    /\ workerCount >= 2
    /\ Len(tasks) >= 2
    /\ requestCount >= 2
    /\ \E i, j \in 1..Len(results) :
           /\ i < j
           /\ EndpointOf(results[i]) = EndpointOf(tasks[2])
           /\ EndpointOf(results[j]) = EndpointOf(tasks[1])

\* C2: Run returns only after every one of the N*R attempts has produced a Result, for
\* every worker count NewRunner accepts (0 included).
C2_RunReturnsAfterAllAttempts ==
    runPc = "returned" => Len(results) = Len(tasks) * requestCount

\* C3: a failed attempt produces exactly one Result with its error set and stops neither
\* its worker nor the pool: with at least one worker Run returns N*R Results, and per
\* endpoint the Results number the attempts made and the Results with an error number
\* the attempts that failed.
C3_FailuresAreResults ==
    (runPc = "returned" /\ workerCount >= 1) =>
        /\ Len(results) = Len(tasks) * requestCount
        /\ \A e \in Endpoints :
               /\ Cardinality(ResultsOf(e)) = transportLog[e].attempts
               /\ Cardinality(FailedResultsOf(e)) = transportLog[e].failures

\* Run returned after a request-construction failure and a transport failure were each
\* followed by a successful attempt.
C3_Witness ==
    /\ runPc = "returned"
    /\ \E i, j, k \in 1..Len(results) :
           /\ i < k /\ j < k
           /\ results[i].Error = ErrNewRequest
           /\ results[j].Error = ErrTransport
           /\ results[k].Error = NoError

\* C4: the results channel is closed at most once and only after all W workers have
\* exited, no worker sends on the closed channel, and once every worker has finished
\* the caller's draining loop ends (Run returns).
C4_ResultChanClosedAfterWorkers ==
    /\ [](/\ resultChanCloses <= 1
          /\ (resultChanCloses > 0 => AllWorkersExited)
          /\ ~panicked
          /\ (runPc = "returned" => resultChanCloses = 1))
    /\ (AllWorkersExited ~> runPc = "returned")

\* Two workers carried Results and exited, the channel was closed, the loop ended.
C4_Witness ==
    /\ runPc = "returned"
    /\ workerCount >= 2
    /\ resultChanCloses = 1
    /\ AllWorkersExited
    /\ Len(results) >= 2

(* ----------------------- Runner.RunUserLoadTest ------------------------ *)
LoadInit ==
    /\ tasks \in { TaskList(n) : n \in 1..MaxBufferCap }
    /\ workerCount = 1
    /\ requestCount = 1
    /\ RunLocalsInit
    /\ panicked = FALSE
    /\ config \in [StartUsers : 1..MaxStartUsers, MaxUsers : 1..MaxMaxUsers,
                   StepUsers : 1..MaxStepUsers]
    /\ config.MaxUsers * Len(tasks) <= MaxBufferCap
    /\ ctlPc = "loop"
    /\ currentUsers = config.StartUsers
    /\ stepNumber = 0
    /\ ctxState = "none"
    /\ bufChan = <<>>
    /\ bufCap = 0
    /\ bufCloses = 0
    /\ userLaunched = 0
    /\ userWg = 0
    /\ activeUsers = 0
    /\ totalRequests = 0
    /\ userPc = [u \in UserIDs |-> "idle"]
    /\ userResult = [u \in UserIDs |-> NoResult]
    /\ stepResults = <<>>
    /\ loadResults = <<>>
    /\ CalcIdle
    /\ PercentIdle
    /\ HistoryIdle
    /\ DataIdle
    /\ LoadStatsIdle

\* for stepNumber := 0; currentUsers <= config.MaxUsers; stepNumber++
StepLoopContinuesStrict(users, cfg) == users < cfg.MaxUsers
StepLoopContinues(users, cfg) == users <= cfg.MaxUsers

\* if currentUsers < config.MaxUsers { cool-down; currentUsers += StepUsers } else { break }
StepCoolsDown(users, cfg) == users < cfg.MaxUsers

\* The user counts of the steps the loop runs from `users` on.
RECURSIVE RampSteps(_, _)
RampSteps(users, cfg) ==
    IF ~StepLoopContinues(users, cfg) THEN <<>>
    ELSE IF StepCoolsDown(users, cfg)
         THEN <<users>> \o RampSteps(users + cfg.StepUsers, cfg)
         ELSE <<users>>

\* The loop condition holds: the step's context, result buffer, counters and WaitGroup.
LoadStepBegin ==
    /\ ~panicked
    /\ ctlPc = "loop"
    /\ StepLoopContinues(currentUsers, config)
    /\ ctxState' = "armed"
    /\ bufChan' = <<>>
    /\ bufCap' = currentUsers * Len(tasks)
    /\ bufCloses' = 0
    /\ userLaunched' = 0
    /\ userWg' = 0
    /\ activeUsers' = 0
    /\ totalRequests' = 0
    /\ userPc' = [u \in UserIDs |-> "idle"]
    /\ userResult' = [u \in UserIDs |-> NoResult]
    /\ stepResults' = <<>>
    /\ ctlPc' = "launch"
    /\ UNCHANGED <<tasks, panicked, config, currentUsers, stepNumber, loadResults>>
    /\ UNCHANGED notLoad

\* The loop condition fails: return results.
LoadLoopExit ==
    /\ ~panicked
    /\ ctlPc = "loop"
    /\ ~StepLoopContinues(currentUsers, config)
    /\ ctlPc' = "returned"
    /\ UNCHANGED <<tasks, panicked, config, currentUsers, stepNumber, stepVars, loadResults>>
    /\ UNCHANGED notLoad

\* for i := 0; i < currentUsers; i++
UserLoopContinuesOffByOne == userLaunched + 1 < currentUsers
UserLoopContinues == userLaunched < currentUsers

\* for i := 0; i < currentUsers; i++ { wg.Add(1); go func(userID int) {...}(i) }
LoadLaunchUser ==
    /\ ~panicked
    /\ ctlPc = "launch"
    /\ UserLoopContinues
    /\ userWg' = userWg + 1
    /\ userPc' = [userPc EXCEPT ![userLaunched] = "start"]
    /\ userLaunched' = userLaunched + 1
    /\ UNCHANGED <<tasks, panicked, config, ctlPc, currentUsers, stepNumber, ctxState,
                   bufChan, bufCap, bufCloses, activeUsers, totalRequests, userResult,
                   stepResults, loadResults>>
    /\ UNCHANGED notLoad

\* The timer of context.WithTimeout fires: ctx.Done() is closed.
DeadlineFires ==
    /\ ~panicked
    /\ ctxState = "armed"
    /\ ctxState' = "done"
    /\ UNCHANGED <<tasks, panicked, config, ctlPc, currentUsers, stepNumber, bufChan,
                   bufCap, bufCloses, userLaunched, userWg, activeUsers, totalRequests,
                   userPc, userResult, stepResults, loadResults>>
    /\ UNCHANGED notLoad

\* <-ctx.Done(), after the launch loop.
LoadAwaitDeadline ==
    /\ ~panicked
    /\ ctlPc = "launch"
    /\ ~UserLoopContinues
    /\ ctxState = "done"
    /\ ctlPc' = "close"
    /\ UNCHANGED <<tasks, panicked, config, currentUsers, stepNumber, stepVars, loadResults>>
    /\ UNCHANGED notLoad

\* close(resultChan)
LoadCloseBuffer ==
    /\ ~panicked
    /\ ctlPc = "close"
    /\ bufCloses' = bufCloses + 1
    /\ ctlPc' = "drain"
    /\ UNCHANGED <<tasks, panicked, config, currentUsers, stepNumber, ctxState, bufChan,
                   bufCap, userLaunched, userWg, activeUsers, totalRequests, userPc,
                   userResult, stepResults, loadResults>>
    /\ UNCHANGED notLoad

\* for result := range resultChan { stepResults = append(stepResults, result) }
\* results = append(results, LoadTestResult{...})
\* Nothing enters a closed channel, so the loop receives what the buffer held at the close.
LoadDrain ==
    /\ ~panicked
    /\ ctlPc = "drain"
    /\ stepResults' = stepResults \o bufChan
    /\ bufChan' = <<>>
    /\ loadResults' = Append(loadResults,
                             [UserCount |-> currentUsers, Results |-> stepResults',
                              StepNumber |-> stepNumber])
    /\ ctlPc' = "cancel"
    /\ UNCHANGED <<tasks, panicked, config, currentUsers, stepNumber, ctxState, bufCap,
                   bufCloses, userLaunched, userWg, activeUsers, totalRequests, userPc,
                   userResult>>
    /\ UNCHANGED notLoad

\* cancel()
LoadCancel ==
    /\ ~panicked
    /\ ctlPc = "cancel"
    /\ ctxState' = "done"
    /\ ctlPc' = "wait"
    /\ UNCHANGED <<tasks, panicked, config, currentUsers, stepNumber, bufChan, bufCap,
                   bufCloses, userLaunched, userWg, activeUsers, totalRequests, userPc,
                   userResult, stepResults, loadResults>>
    /\ UNCHANGED notLoad

\* wg.Wait() returns when the step's counter is zero.
UsersWaitedUnguarded == TRUE
UsersWaited == userWg = 0

\* wg.Wait(), then the test that decides between the cool-down and the break.
LoadWaitUsers ==
    /\ ~panicked
    /\ ctlPc = "wait"
    /\ UsersWaited
    /\ ctlPc' = IF StepCoolsDown(currentUsers, config) THEN "cooldown" ELSE "returned"
    /\ UNCHANGED <<tasks, panicked, config, currentUsers, stepNumber, stepVars, loadResults>>
    /\ UNCHANGED notLoad

\* time.Sleep(5 * time.Second); currentUsers += config.StepUsers; stepNumber++
LoadCooldown ==
    /\ ~panicked
    /\ ctlPc = "cooldown"
    /\ currentUsers' = currentUsers + config.StepUsers
    /\ stepNumber' = stepNumber + 1
    /\ ctlPc' = "loop"
    /\ UNCHANGED <<tasks, panicked, config, stepVars, loadResults>>
    /\ UNCHANGED notLoad

\* activeUsers.Add(1), then the stagger sleep.
UserStart(u) ==
    /\ ~panicked
    /\ userPc[u] = "start"
    /\ activeUsers' = activeUsers + 1
    /\ userPc' = [userPc EXCEPT ![u] = "stagger"]
    /\ UNCHANGED <<tasks, panicked, config, ctlPc, currentUsers, stepNumber, ctxState,
                   bufChan, bufCap, bufCloses, userLaunched, userWg, totalRequests,
                   userResult, stepResults, loadResults>>
    /\ UNCHANGED notLoad

\* The stagger sleep or the think-time is over and the select finds ctx.Done() closed:
\* return, with the deferred activeUsers.Add(-1) and wg.Done().
UserExit(u) ==
    /\ ~panicked
    /\ userPc[u] \in {"stagger", "think"}
    /\ ctxState = "done"
    /\ activeUsers' = activeUsers - 1
    /\ userWg' = userWg - 1
    /\ userPc' = [userPc EXCEPT ![u] = "done"]
    /\ UNCHANGED <<tasks, panicked, config, ctlPc, currentUsers, stepNumber, ctxState,
                   bufChan, bufCap, bufCloses, userLaunched, totalRequests, userResult,
                   stepResults, loadResults>>
    /\ UNCHANGED notLoad

\* The sleep is over and the select takes its default: the request is issued.
UserIssue(u) ==
    /\ ~panicked
    /\ userPc[u] \in {"stagger", "think"}
    /\ ctxState # "done"
    /\ userPc' = [userPc EXCEPT ![u] = "request"]
    /\ UNCHANGED <<tasks, panicked, config, ctlPc, currentUsers, stepNumber, ctxState,
                   bufChan, bufCap, bufCloses, userLaunched, userWg, activeUsers,
                   totalRequests, userResult, stepResults, loadResults>>
    /\ UNCHANGED notLoad

\* task := r.tasks[rand.Intn(len(r.tasks))]; result := r.executeRequest(client, task, userID)
UserRequest(u, t, o) ==
    /\ ~panicked
    /\ userPc[u] = "request"
    /\ userResult' = [userResult EXCEPT ![u] = MakeResult(tasks[t], o, u)]
    /\ userPc' = [userPc EXCEPT ![u] = "push"]
    /\ UNCHANGED <<tasks, panicked, config, ctlPc, currentUsers, stepNumber, ctxState,
                   bufChan, bufCap, bufCloses, userLaunched, userWg, activeUsers,
                   totalRequests, stepResults, loadResults>>
    /\ UNCHANGED notLoad

\* The send case of the select is ready when the buffer has room.
BufferHasRoomAlways == TRUE
BufferHasRoom == Len(bufChan) < bufCap

\* select { case resultChan <- result: ...; default: }: the send, or the default.
\* A send on a closed channel panics, in a select too.
UserPush(u) ==
    /\ ~panicked
    /\ userPc[u] = "push"
    /\ IF bufCloses > 0
       THEN /\ panicked' = TRUE
            /\ userPc' = [userPc EXCEPT ![u] = "panic"]
            /\ UNCHANGED <<bufChan, totalRequests, userResult>>
       ELSE /\ IF BufferHasRoom
               THEN /\ bufChan' = Append(bufChan, userResult[u])
                    /\ userPc' = [userPc EXCEPT ![u] = "count"]
               ELSE /\ UNCHANGED bufChan
                    /\ userPc' = [userPc EXCEPT ![u] = "think"]
            /\ userResult' = [userResult EXCEPT ![u] = NoResult]
            /\ UNCHANGED <<panicked, totalRequests>>
    /\ UNCHANGED <<tasks, config, ctlPc, currentUsers, stepNumber, ctxState, bufCap,
                   bufCloses, userLaunched, userWg, activeUsers, stepResults, loadResults>>
    /\ UNCHANGED notLoad

\* totalRequests.Add(1), the body of the send case: after the send, before the think-time.
UserCountsRequest(u) ==
    /\ ~panicked
    /\ userPc[u] = "count"
    /\ totalRequests' = totalRequests + 1
    /\ userPc' = [userPc EXCEPT ![u] = "think"]
    /\ UNCHANGED <<tasks, panicked, config, ctlPc, currentUsers, stepNumber, ctxState,
                   bufChan, bufCap, bufCloses, userLaunched, userWg, activeUsers,
                   userResult, stepResults, loadResults>>
    /\ UNCHANGED notLoad

LoadController ==
    \/ LoadStepBegin
    \/ LoadLoopExit
    \/ LoadLaunchUser
    \/ LoadAwaitDeadline
    \/ LoadCloseBuffer
    \/ LoadDrain
    \/ LoadCancel
    \/ LoadWaitUsers
    \/ LoadCooldown

User(u) ==
    \/ UserStart(u)
    \/ UserExit(u)
    \/ UserIssue(u)
    \/ \E t \in 1..Len(tasks) : \E o \in UserOutcomes(tasks[t]) : UserRequest(u, t, o)
    \/ UserPush(u)
    \/ UserCountsRequest(u)

UserLoadNext ==
    \/ LoadController
    \/ DeadlineFires
    \/ \E u \in UserIDs : User(u)

UserLoadSpec == LoadInit /\ [][UserLoadNext]_vars

(* ------------------- claims: Runner.RunUserLoadTest -------------------- *)
UsersFinished == \A u \in UserIDs : userPc[u] \in {"idle", "done"}
BufferedBy(u) == { i \in 1..Len(bufChan) : bufChan[i].ThreadID = u }

\* C5: after the deadline the controller cancels the context, waits for the step's
\* virtual users, and only then closes and drains the result buffer: the buffer is
\* never closed while a virtual user of the step is still running.
C5_BufferClosedAfterUsersFinished ==
    bufCloses > 0 => UsersFinished

\* C6: a virtual user never blocks when pushing a Result: the push is always possible;
\* the user that pushes to a full buffer goes on to its think-time and leaves the buffer
\* and the request counter as they were (the Result is dropped); the buffer never holds
\* more Results than its capacity.
C6_PushNeverBlocksAndDropsOnFull ==
    /\ [](Len(bufChan) <= bufCap)
    /\ [](\A u \in UserIDs : (userPc[u] = "push" /\ ~panicked) => ENABLED UserPush(u))
    /\ [][\A u \in UserIDs :
            (userPc[u] = "push" /\ userPc'[u] # "push" /\ Len(bufChan) >= bufCap) =>
                /\ userPc'[u] = "think"
                /\ bufChan' = bufChan
                /\ totalRequests' = totalRequests]_vars

\* The push policy on a buffer that is still open: a push that finds it full drops the
\* Result, a push that finds room appends it and goes on to count it; either way the
\* user goes on.
PushPolicyWhileOpen ==
    [][\A u \in UserIDs :
         (userPc[u] = "push" /\ userPc'[u] # "push" /\ bufCloses = 0) =>
             /\ totalRequests' = totalRequests
             /\ IF Len(bufChan) >= bufCap
                THEN bufChan' = bufChan /\ userPc'[u] = "think"
                ELSE bufChan' = Append(bufChan, userResult[u]) /\ userPc'[u] = "count"]_vars

\* The buffer is full and open, and a user has reached its think-time while none of the
\* buffered Results is its own: what it pushed was dropped.
DroppedOnFull ==
    /\ bufCloses = 0
    /\ bufCap >= 1
    /\ Len(bufChan) = bufCap
    /\ \E u \in UserIDs : userPc[u] = "think" /\ BufferedBy(u) = {}

\* C7 as stated: for every configuration with stepUsers >= 1 and startUsers,
\* maxUsers >= 1 RunUserLoadTest returns floor((maxUsers - startUsers)/stepUsers) + 1
\* per-step results.
C7_StepCountEveryConfig ==
    ctlPc = "returned" =>
        Len(loadResults) = ((config.MaxUsers - config.StartUsers) \div config.StepUsers) + 1

\* C7 amended: the same count for the configurations with startUsers <= maxUsers; and
\* the loop run on startUsers=2, maxUsers=50, stepUsers=5 makes 10 steps.
C7_StepCount ==
    /\ (ctlPc = "returned" /\ config.StartUsers <= config.MaxUsers) =>
           /\ Len(loadResults) =
                  ((config.MaxUsers - config.StartUsers) \div config.StepUsers) + 1
           /\ Len(loadResults) = Len(RampSteps(config.StartUsers, config))
    /\ Len(RampSteps(2, [StartUsers |-> 2, MaxUsers |-> 50, StepUsers |-> 5])) = 10

\* A ramp of two steps was run to its end.
C7_Witness ==
    /\ ctlPc = "returned"
    /\ config.StartUsers < config.MaxUsers
    /\ Len(loadResults) = 2

\* C8: the cool-down is slept only when another step follows.
C8_CooldownOnlyBeforeAnotherStep ==
    ctlPc = "cooldown" =>
        StepLoopContinues(currentUsers + config.StepUsers, config)

(* --------------------------- stats.Calculate --------------------------- *)
\* time.Hour, the MinDuration an endpoint entry is created with, in milliseconds.
Hour == 3600000

\* The response statuses a server gives: a 2xx and an error status.
StatusCodes == {200, 500}

\* The endpoints the measured Results come from: two methods on one URL and a second URL.
CalcTasks ==
    { [Method |-> "GET", URL |-> "/a"], [Method |-> "POST", URL |-> "/a"],
      [Method |-> "GET", URL |-> "/b"] }

\* The Results a runner hands to Calculate: per endpoint a transport failure, or a
\* response with a status and a duration.
CalcOutcomes(task) ==
    { [StatusCode |-> 0, Duration |-> 1, Error |-> ErrTransport] } \cup
    { [StatusCode |-> c, Duration |-> d, Error |-> NoError] :
        c \in StatusCodes, d \in 1..MaxDuration }

MeasuredResults ==
    UNION { { MakeResult(t, o, 0) : o \in CalcOutcomes(t) } : t \in CalcTasks }

\* key := fmt.Sprintf("%s %s", result.Method, result.URL)
EndpointKey(x) == x.Method \o " " \o x.URL

\* float64(requests) / duration.Seconds(), kept as the exact quotient requests/millis.
ZeroRate == [requests |-> 0, millis |-> 1]
Rate(n, d) == [requests |-> n, millis |-> d]

\* &EndpointStatistics{URL: ..., Method: ..., MinDuration: time.Hour, StatusCodes: make(...)}
NewEndpointStatistics(result) ==
    [URL |-> result.URL, Method |-> result.Method,
     TotalRequests |-> 0, SuccessRequests |-> 0, FailedRequests |-> 0,
     TotalDuration |-> 0, AverageDuration |-> 0, MinDuration |-> Hour, MaxDuration |-> 0,
     MedianDuration |-> 0, Percentile95 |-> 0, Percentile99 |-> 0,
     RequestsPerSecond |-> ZeroRate, StatusCodes |-> [c \in {} |-> 0],
     SuccessCodes |-> 0, ClientErrors |-> 0, ServerErrors |-> 0,
     P50Latency |-> 0, P95Latency |-> 0, P99Latency |-> 0]

\* endpointStat.StatusCodes[result.StatusCode]++
CountStatus(codes, c) ==
    IF c \in DOMAIN codes THEN [codes EXCEPT ![c] = @ + 1] ELSE codes @@ (c :> 1)

\* The body of Calculate's first loop for one Result, on that Result's endpoint entry.
CountResult(stat, result) ==
    IF result.Error # NoError
    THEN [stat EXCEPT !.TotalRequests = @ + 1, !.FailedRequests = @ + 1]
    ELSE [stat EXCEPT
            !.TotalRequests = @ + 1,
            !.SuccessRequests = @ + 1,
            !.TotalDuration = @ + result.Duration,
            !.MinDuration = IF result.Duration < @ THEN result.Duration ELSE @,
            !.MaxDuration = IF result.Duration > @ THEN result.Duration ELSE @,
            !.StatusCodes = CountStatus(@, result.StatusCode),
            !.SuccessCodes =
                IF result.StatusCode >= 200 /\ result.StatusCode < 300 THEN @ + 1 ELSE @,
            !.ClientErrors =
                IF result.StatusCode >= 400 /\ result.StatusCode < 500 THEN @ + 1 ELSE @,
            !.ServerErrors = IF result.StatusCode >= 500 THEN @ + 1 ELSE @]

\* stats := &Statistics{EndpointStats: make(map[string]*EndpointStatistics)}
EmptyStatistics ==
    [EndpointStats |-> [k \in {} |-> 0], TotalRequests |-> 0, TotalDuration |-> 0]

\* The body of Calculate's first loop for one Result.
CountInto(statistics, result) ==
    LET key == EndpointKey(result)
        exists == key \in DOMAIN statistics.EndpointStats
        entry == IF exists THEN statistics.EndpointStats[key]
                 ELSE NewEndpointStatistics(result)
        counted == CountResult(entry, result)
    IN [EndpointStats |->
            IF exists THEN [statistics.EndpointStats EXCEPT ![key] = counted]
            ELSE statistics.EndpointStats @@ (key :> counted),
        TotalRequests |-> statistics.TotalRequests + 1,
        TotalDuration |->
            IF result.Error # NoError THEN statistics.TotalDuration
            ELSE statistics.TotalDuration + result.Duration]

\* for _, result := range results { ... } over rs[lo..hi], in order, from `statistics`.
\* The range is halved and the first half is counted before the second is entered (the
\* test on its total holds always), which keeps the evaluation shallow on long slices.
RECURSIVE LoopOver(_, _, _, _)
LoopOver(statistics, rs, lo, hi) ==
    IF lo > hi THEN statistics
    ELSE IF lo = hi THEN CountInto(statistics, rs[lo])
    ELSE LET mid == (lo + hi) \div 2
             firstHalf == LoopOver(statistics, rs, lo, mid)
         IN IF firstHalf.TotalRequests >= 0
            THEN LoopOver(firstHalf, rs, mid + 1, hi)
            ELSE firstHalf

FirstPass(rs) == LoopOver(EmptyStatistics, rs, 1, Len(rs))

\* if result.URL == stat.URL && result.Error == nil { durations = append(durations, ...) }
CollectsDuration(stat, result) ==
    result.URL = stat.URL /\ result.Error = NoError

DurationsFor(stat, rs) ==
    LET picked == SelectSeq(rs, LAMBDA result : CollectsDuration(stat, result))
    IN [i \in 1..Len(picked) |-> picked[i].Duration]

\* sort.Slice(durations, func(i, j int) bool { return durations[i] < durations[j] })
SortDurationsSkipped(durations) == durations
SortDurations(durations) == SortSeq(durations, LAMBDA a, b : a < b)

\* durations[i] of the Go slice (0-based).
At(durations, i) == durations[i + 1]

\* The textbook nearest rank: the index of the ceil(n*percent/100)-th smallest element.
FloatIndexNearestRank(n, percent) == ((n * percent + 99) \div 100) - 1

\* int(float64(n) * 0.95) and int(float64(n) * 0.99): for every slice length the 64-bit
\* product truncates to the integer quotient of n*95 and n*99 by 100.
FloatIndex(n, percent) == (n * percent) \div 100

\* s.calculatePercentiles(durations)
calculatePercentiles(stat, durations) ==
    LET sorted == SortDurations(durations)
        l == Len(sorted)
    IN [stat EXCEPT !.P50Latency = At(sorted, (l * 50) \div 100),
                    !.P95Latency = At(sorted, (l * 95) \div 100),
                    !.P99Latency = At(sorted, (l * 99) \div 100)]

\* calculateEndpointStats(stat, results). The integer division by stat.SuccessRequests
\* panics when that count is zero.
calculateEndpointStats(stat, rs) ==
    LET durations == SortDurations(DurationsFor(stat, rs))
        l == Len(durations)
    IN IF l = 0 THEN stat
       ELSE IF stat.SuccessRequests = 0 THEN CalcPanic
       ELSE calculatePercentiles(
                [stat EXCEPT
                   !.AverageDuration = stat.TotalDuration \div stat.SuccessRequests,
                   !.MedianDuration = At(durations, l \div 2),
                   !.Percentile95 = At(durations, FloatIndex(l, 95)),
                   !.Percentile99 = At(durations, FloatIndex(l, 99)),
                   !.RequestsPerSecond = Rate(stat.SuccessRequests, stat.TotalDuration)],
                durations)

\* Calculate(results): the first loop, then calculateEndpointStats on every entry. The
\* entries are independent of each other, so the map's iteration order is immaterial; a
\* panic in any of them unwinds the call.
Calculate(rs) ==
    LET first == FirstPass(rs)
        second == [k \in DOMAIN first.EndpointStats |->
                      calculateEndpointStats(first.EndpointStats[k], rs)]
    IN IF \E k \in DOMAIN second : second[k] = CalcPanic
       THEN CalcPanic
       ELSE [first EXCEPT !.EndpointStats = second]

\* One endpoint measured 100 times with the durations 10ms, 20ms, ..., 1000ms, handed
\* over in ascending and in descending order.
HundredDurations == [i \in 1..100 |-> 10 * i]
HundredResults(durations) ==
    [i \in 1..Len(durations) |->
        MakeResult([Method |-> "GET", URL |-> "/a"],
                   [StatusCode |-> 200, Duration |-> durations[i], Error |-> NoError], 0)]
HundredInputs ==
    { HundredResults(HundredDurations),
      HundredResults([i \in 1..100 |-> HundredDurations[101 - i]]) }

\* The caller of Calculate has gathered no Result yet, or holds the 100 samples.
CalcInit ==
    /\ tasks = TaskList(1)
    /\ workerCount = 1
    /\ requestCount = 1
    /\ RunLocalsInit
    /\ panicked = FALSE
    /\ LoadIdle
    /\ calcInput \in { <<>> } \cup HundredInputs
    /\ calcPc = "collecting"
    /\ calcOutput = NoStatistics
    /\ PercentIdle
    /\ HistoryIdle
    /\ DataIdle
    /\ LoadStatsIdle

\* results = append(results, result): the caller gathers one more Result of a run.
CallerCollects(result) ==
    /\ ~panicked
    /\ calcPc = "collecting"
    /\ Len(calcInput) < MaxResults
    /\ calcInput' = Append(calcInput, result)
    /\ UNCHANGED <<calcPc, calcOutput, notCalc>>

\* statistics := stats.Calculate(results): the call runs to its end and returns.
CalculateReturns ==
    /\ ~panicked
    /\ calcPc = "collecting"
    /\ Calculate(calcInput) # CalcPanic
    /\ calcOutput' = Calculate(calcInput)
    /\ calcPc' = "done"
    /\ UNCHANGED <<calcInput, notCalc>>

\* The call panics: the process is gone.
CalculatePanics ==
    /\ ~panicked
    /\ calcPc = "collecting"
    /\ Calculate(calcInput) = CalcPanic
    /\ calcOutput' = CalcPanic
    /\ calcPc' = "done"
    /\ panicked' = TRUE
    /\ UNCHANGED <<calcInput, tasks, workerCount, requestCount, runLocals, loadVars,
                   pctVars, histVars, dataVars, ltVars>>

CalculateNext ==
    \/ \E result \in MeasuredResults : CallerCollects(result)
    \/ CalculateReturns
    \/ CalculatePanics

CalculateSpec == CalcInit /\ [][CalculateNext]_vars

(* ----------------------- claims: stats.Calculate ----------------------- *)
Returned == calcPc = "done" /\ calcOutput # CalcPanic
EntryResults(stat) ==
    { i \in 1..Len(calcInput) :
        calcInput[i].Method = stat.Method /\ calcInput[i].URL = stat.URL }
OwnDurations(stat) ==
    { calcInput[i].Duration : i \in { j \in EntryResults(stat) :
                                        calcInput[j].Error = NoError } }

\* C9: for every Result sequence Calculate yields Statistics whose TotalRequests is the
\* length of the sequence and whose endpoint entries each have TotalRequests equal to
\* SuccessRequests + FailedRequests.
C9_CalculateCountsEveryResult ==
    calcPc = "done" =>
        /\ calcOutput # CalcPanic
        /\ calcOutput.TotalRequests = Len(calcInput)
        /\ \A k \in DOMAIN calcOutput.EndpointStats :
              LET stat == calcOutput.EndpointStats[k]
              IN stat.TotalRequests = stat.SuccessRequests + stat.FailedRequests

\* The counts of the Statistics a call returns: the total is the length of the sequence,
\* every entry counts the Results of its own method and URL, successes plus failures.
ReturnedCountsAreRight ==
    Returned =>
        /\ calcOutput.TotalRequests = Len(calcInput)
        /\ \A k \in DOMAIN calcOutput.EndpointStats :
              LET stat == calcOutput.EndpointStats[k]
              IN /\ stat.TotalRequests = stat.SuccessRequests + stat.FailedRequests
                 /\ stat.TotalRequests = Cardinality(EntryResults(stat))

\* C10: each endpoint's median and percentile values are durations of successful Results
\* carrying that endpoint's own method and URL, also when two endpoints share a URL.
C10_PercentilesFromOwnResults ==
    Returned =>
        \A k \in DOMAIN calcOutput.EndpointStats :
            LET stat == calcOutput.EndpointStats[k]
            IN stat.SuccessRequests > 0 =>
                 {stat.MedianDuration, stat.Percentile95, stat.Percentile99,
                  stat.P50Latency, stat.P95Latency, stat.P99Latency}
                     \subseteq OwnDurations(stat)

\* C11: an endpoint without a successful Result gets zero-valued average, median,
\* percentile and requestsPerSecond fields and Calculate completes normally, whatever
\* Results the other endpoints of the batch have.
C11_NoSuccessGivesZeroFields ==
    calcPc = "done" =>
        /\ calcOutput # CalcPanic
        /\ \A k \in DOMAIN calcOutput.EndpointStats :
              LET stat == calcOutput.EndpointStats[k]
              IN stat.SuccessRequests = 0 =>
                   /\ stat.AverageDuration = 0
                   /\ stat.MedianDuration = 0
                   /\ stat.Percentile95 = 0 /\ stat.Percentile99 = 0
                   /\ stat.P50Latency = 0 /\ stat.P95Latency = 0 /\ stat.P99Latency = 0
                   /\ stat.RequestsPerSecond = ZeroRate

\* The entries without a success of the Statistics a call returns have zero-valued fields:
\* such a call met no success of another method on the entry's URL.
ReturnedNoSuccessEntriesAreZero ==
    Returned =>
        \A k \in DOMAIN calcOutput.EndpointStats :
            LET stat == calcOutput.EndpointStats[k]
            IN stat.SuccessRequests = 0 =>
                 /\ stat.AverageDuration = 0 /\ stat.MedianDuration = 0
                 /\ stat.Percentile95 = 0 /\ stat.Percentile99 = 0
                 /\ stat.P50Latency = 0 /\ stat.P95Latency = 0 /\ stat.P99Latency = 0
                 /\ stat.RequestsPerSecond = ZeroRate

\* The successful durations of the entry's own method and URL, sorted ascending.
OwnSortedDurations(stat) ==
    LET own == SelectSeq(calcInput,
                         LAMBDA r : r.Method = stat.Method /\ r.URL = stat.URL
                                    /\ r.Error = NoError)
    IN SortDurations([i \in 1..Len(own) |-> own[i].Duration])

\* C12: for an endpoint whose successful durations, sorted ascending, have length
\* len >= 1, MedianDuration is their element at index floor(len/2) and P50Latency,
\* P95Latency, P99Latency are their elements at floor(len*50/100), floor(len*95/100),
\* floor(len*99/100); each index lies in [0, len-1].
C12_MedianAndPercentileIndexes ==
    Returned =>
        \A k \in DOMAIN calcOutput.EndpointStats :
            LET stat == calcOutput.EndpointStats[k]
                own == OwnSortedDurations(stat)
                len == Len(own)
            IN len >= 1 =>
                 /\ \A i \in {len \div 2, (len * 50) \div 100, (len * 95) \div 100,
                              (len * 99) \div 100} : i \in 0..(len - 1)
                 /\ stat.MedianDuration = At(own, len \div 2)
                 /\ stat.P50Latency = At(own, (len * 50) \div 100)
                 /\ stat.P95Latency = At(own, (len * 95) \div 100)
                 /\ stat.P99Latency = At(own, (len * 99) \div 100)

\* The index arithmetic alone: for every length from 1 to 200 the four integer indices,
\* and the two computed in floating point, lie inside the slice.
IndexesInRange ==
    \A len \in 1..200 :
        \A i \in {len \div 2, (len * 50) \div 100, (len * 95) \div 100,
                  (len * 99) \div 100, FloatIndex(len, 95), FloatIndex(len, 99)} :
            i \in 0..(len - 1)

\* The same statement over the durations the code sorts (every method on the entry's URL).
ReturnedIndexesOverCollectedDurations ==
    Returned =>
        \A k \in DOMAIN calcOutput.EndpointStats :
            LET stat == calcOutput.EndpointStats[k]
                all == SortDurations(DurationsFor(stat, calcInput))
                len == Len(all)
            IN len >= 1 =>
                 /\ stat.MedianDuration = At(all, len \div 2)
                 /\ stat.P50Latency = At(all, (len * 50) \div 100)
                 /\ stat.P95Latency = At(all, (len * 95) \div 100)
                 /\ stat.P99Latency = At(all, (len * 99) \div 100)

\* C13 as stated: for one endpoint with the 100 successful durations 10ms, ..., 1000ms
\* Calculate yields p95 = 950ms and p99 = 990ms in both field sets.
C13_HundredSamplesAsStated ==
    (calcPc = "done" /\ calcInput \in HundredInputs) =>
        /\ calcOutput # CalcPanic
        /\ LET stat == calcOutput.EndpointStats["GET /a"]
           IN /\ stat.Percentile95 = 950 /\ stat.Percentile99 = 990
              /\ stat.P95Latency = 950 /\ stat.P99Latency = 990

\* C13 amended: on that input both field sets hold p95 = 960ms (the element at index 95
\* of the sorted durations) and p99 = 1000ms (the element at index 99).
C13_HundredSamples ==
    (calcPc = "done" /\ calcInput \in HundredInputs) =>
        /\ calcOutput # CalcPanic
        /\ DOMAIN calcOutput.EndpointStats = {"GET /a"}
        /\ LET stat == calcOutput.EndpointStats["GET /a"]
           IN /\ stat.SuccessRequests = 100
              /\ stat.Percentile95 = 960 /\ stat.Percentile99 = 1000
              /\ stat.P95Latency = 960 /\ stat.P99Latency = 1000
              /\ stat.MedianDuration = 510 /\ stat.P50Latency = 510

\* Calculate has returned the Statistics of the 100 samples handed over in descending order.
C13_Witness ==
    /\ Returned
    /\ Len(calcInput) = 100
    /\ calcInput[1].Duration = 1000
    /\ calcOutput.TotalRequests = 100

(* --------------------- percentage change (three copies) ---------------- *)
\* float64 values are kept as exact fractions num/den with den > 0, in lowest terms.
RECURSIVE Gcd(_, _)
Gcd(a, b) == IF b = 0 THEN a ELSE Gcd(b, a % b)
Abs(n) == IF n < 0 THEN -n ELSE n
Frac(n, d) ==
    LET sn == IF d < 0 THEN -n ELSE n
        sd == Abs(d)
        g == Gcd(Abs(sn), sd)
    IN [num |-> sn \div g, den |-> sd \div g]
FromInt(n) == [num |-> n, den |-> 1]
FSub(a, b) == Frac(a.num * b.den - b.num * a.den, a.den * b.den)
FMul(a, b) == Frac(a.num * b.num, a.den * b.den)
FDiv(a, b) == Frac(a.num * b.den, a.den * b.num)
FNeg(a) == [num |-> -a.num, den |-> a.den]
FGreater(a, b) == a.num * b.den > b.num * a.den
FZero == FromInt(0)

\* history: func percentageIncrease(current, previous float64) float64
percentageIncrease(current, previous) ==
    IF previous = FZero THEN FZero
    ELSE FMul(FDiv(FSub(current, previous), previous), FromInt(100))

\* history: func percentageDecrease(current, previous float64) float64
percentageDecreaseUnsigned(current, previous) == percentageIncrease(current, previous)
percentageDecrease(current, previous) == FNeg(percentageIncrease(current, previous))

\* util: func CalculatePercentageChange(current, previous float64) float64
CalculatePercentageChange(current, previous) ==
    IF previous = FZero THEN FZero
    ELSE FMul(FDiv(FSub(current, previous), previous), FromInt(100))

\* viz: func percentageChange(current, previous float64) float64
percentageChangeUnguarded(current, previous) ==
    IF previous = FZero THEN FromInt(100)
    ELSE FMul(FDiv(FSub(current, previous), previous), FromInt(100))
percentageChange(current, previous) ==
    IF previous = FZero THEN FZero
    ELSE FMul(FDiv(FSub(current, previous), previous), FromInt(100))

\* A caller holds two numbers: whole numbers and halves up to MaxMagnitude either way.
MaxMagnitude == 3
Numbers == { Frac(n, d) : n \in (-2 * MaxMagnitude)..(2 * MaxMagnitude), d \in {1, 2} }

PercentInit ==
    /\ tasks = TaskList(1)
    /\ workerCount = 1
    /\ requestCount = 1
    /\ RunLocalsInit
    /\ panicked = FALSE
    /\ LoadIdle
    /\ CalcIdle
    /\ HistoryIdle
    /\ DataIdle
    /\ LoadStatsIdle
    /\ pctCurrent \in Numbers
    /\ pctPrevious \in Numbers
    /\ pctPc = "called"
    /\ pctResult = <<>>

\* The three copies are applied to the same arguments.
PercentReturn ==
    /\ pctPc = "called"
    /\ pctResult' = [history |-> percentageIncrease(pctCurrent, pctPrevious),
                     util |-> CalculatePercentageChange(pctCurrent, pctPrevious),
                     viz |-> percentageChange(pctCurrent, pctPrevious)]
    /\ pctPc' = "done"
    /\ UNCHANGED <<pctCurrent, pctPrevious, notPct>>

PercentSpec == PercentInit /\ [][PercentReturn]_vars

\* C17: each of the three copies returns ((current - previous)/previous)*100 when previous
\* is not zero and exactly 0 when it is, for every current.
C17_PercentageChange ==
    pctPc = "done" =>
        LET expected ==
                IF pctPrevious.num = 0 THEN FZero
                ELSE Frac(100 * (pctCurrent.num * pctPrevious.den
                                 - pctPrevious.num * pctCurrent.den) * pctPrevious.den,
                          pctCurrent.den * pctPrevious.den * pctPrevious.num)
        IN /\ pctResult.history = expected
           /\ pctResult.util = expected
           /\ pctResult.viz = expected

\* The guard was taken with a non-zero current, and all three copies returned 0.
C17_Witness ==
    /\ pctPc = "done"
    /\ pctPrevious = FZero
    /\ pctCurrent # FZero
    /\ pctResult.viz = FZero

(* ----------------------------- history.Store --------------------------- *)
\* How many SaveResults calls, and how many seconds of wall clock, a behaviour holds.
MaxSaves == 2

\* What one endpoint went through in a run: how many requests got a response, how many
\* failed in transport, and how long each response took (ms). The durations are halves
\* and wholes of a second, so every float64 quotient below is exact.
Absent == [ok |-> 0, failed |-> 0, millis |-> 0]
Healthy == [ok |-> 10, failed |-> 0, millis |-> 1000]
HalfFailed == [ok |-> 5, failed |-> 5, millis |-> 1000]
Slow == [ok |-> 10, failed |-> 0, millis |-> 1500]
AllFailed == [ok |-> 0, failed |-> 10, millis |-> 0]
Profiles == {Absent, Healthy, HalfFailed, Slow, AllFailed}

\* The Results of one endpoint in a run of that profile.
ProfileResults(task, profile) ==
    [i \in 1..(profile.ok + profile.failed) |->
        IF i <= profile.ok
        THEN MakeResult(task, [StatusCode |-> 200, Duration |-> profile.millis,
                               Error |-> NoError], 0)
        ELSE MakeResult(task, [StatusCode |-> 0, Duration |-> 1, Error |-> ErrTransport], 0)]

\* statistics := stats.Calculate(results), for runs over GET /a and GET /b.
StatisticsCatalog ==
    { Calculate(ProfileResults([Method |-> "GET", URL |-> "/a"], pa)
                \o ProfileResults([Method |-> "GET", URL |-> "/b"], pb)) :
        pa \in Profiles, pb \in {Absent, Healthy} }

\* The thresholds a store is opened with: the default 10.0, and 50.0.
Thresholds == { FromInt(10), FromInt(50) }

\* s.gitInfo, the same for every run of one store.
GitInfo == [CommitHash |-> "ts", ShortHash |-> "ts"]

\* time.Now().Format("20060102-150405"): the digits of the time to the second; two such
\* strings are ordered as their times are. The empty string is the empty tuple.
Format(t) == <<t>>
EmptyString == <<>>
StringLess(a, b) == a[1] < b[1]

\* duration.Seconds() of a duration in ms, and the float64 of a request rate.
Seconds(millis) == Frac(millis, 1000)
RateValue(rate) == Frac(rate.requests * 1000, rate.millis)

\* json.MarshalIndent fails on an infinite float64.
Finite(rate) == rate.millis # 0

\* func successRate(stats *stats.EndpointStatistics) float64
successRate(stat) ==
    IF stat.TotalRequests = 0 THEN FZero
    ELSE FMul(Frac(stat.SuccessRequests, stat.TotalRequests), FromInt(100))

\* func (s *Store) isDegraded(changes DegradationReport) bool
isDegradedAtThreshold(changes, threshold) ==
    \/ ~FGreater(threshold, changes.LatencyIncrease)
    \/ ~FGreater(threshold, changes.ErrorRateIncrease)
    \/ ~FGreater(threshold, changes.ThroughputDecrease)
    \/ ~FGreater(threshold, changes.SuccessRateDecrease)
isDegraded(changes, threshold) ==
    \/ FGreater(changes.LatencyIncrease, threshold)
    \/ FGreater(changes.ErrorRateIncrease, threshold)
    \/ FGreater(changes.ThroughputDecrease, threshold)
    \/ FGreater(changes.SuccessRateDecrease, threshold)

\* changes := DegradationReport{...} of compareWithBaseline
Changes(currentStats, baselineStats) ==
    [LatencyIncrease |->
        percentageIncrease(Seconds(currentStats.AverageDuration),
                           Seconds(baselineStats.AverageDuration)),
     ErrorRateIncrease |->
        percentageIncrease(FromInt(currentStats.FailedRequests),
                           FromInt(baselineStats.FailedRequests)),
     ThroughputDecrease |->
        percentageDecrease(RateValue(currentStats.RequestsPerSecond),
                           RateValue(baselineStats.RequestsPerSecond)),
     SuccessRateDecrease |->
        percentageDecrease(successRate(currentStats), successRate(baselineStats))]

\* The endpoints the loop of compareWithBaseline enters its body for.
ComparedKeysOfCurrent(currentStatistics, baselineStatistics) ==
    DOMAIN currentStatistics.EndpointStats
ComparedKeys(currentStatistics, baselineStatistics) ==
    { endpoint \in DOMAIN currentStatistics.EndpointStats :
        endpoint \in DOMAIN baselineStatistics.EndpointStats }

\* hasDegradation after the loop: set by any degraded comparison, never reset.
HasDegradationAll(endpoints) ==
    \A endpoint \in DOMAIN endpoints : endpoints[endpoint].Degradation
HasDegradation(endpoints) ==
    \E endpoint \in DOMAIN endpoints : endpoints[endpoint].Degradation

\* func (s *Store) compareWithBaseline(current, baseline *TestHistory) bool: current
\* with its Endpoints filled, and the value returned. The map lookup
\* baseline.Statistics.EndpointStats[endpoint] yields the entry, or no entry at all for
\* a key the baseline lacks.
BaselineEntry(baselineStatistics, endpoint) ==
    IF endpoint \in DOMAIN baselineStatistics.EndpointStats
    THEN baselineStatistics.EndpointStats[endpoint]
    ELSE NewEndpointStatistics([URL |-> "", Method |-> ""])
compareWithBaseline(current, baseline, threshold) ==
    LET endpoints ==
            [endpoint \in ComparedKeys(current.Statistics, baseline.Statistics) |->
                LET currentStats == current.Statistics.EndpointStats[endpoint]
                    baselineStats == BaselineEntry(baseline.Statistics, endpoint)
                    changes == Changes(currentStats, baselineStats)
                IN [Current |-> currentStats, Previous |-> baselineStats,
                    Degradation |-> isDegraded(changes, threshold),
                    Changes |-> changes]]
    IN [current |-> [current EXCEPT !.Endpoints = endpoints],
        hasDegradation |-> HasDegradation(endpoints)]

\* json.MarshalIndent(history) and json.Unmarshal(data, &history): the struct fields
\* under their JSON names, baselineId left out when empty.
MarshalHistory(history) ==
    LET always == [runId |-> history.RunID, timestamp |-> history.Timestamp,
                   statistics |-> history.Statistics, endpoints |-> history.Endpoints,
                   degradation |-> history.Degradation,
                   thresholdPct |-> history.ThresholdPct, gitInfo |-> history.GitInfo]
    IN IF history.BaselineID = EmptyString THEN always
       ELSE always @@ [baselineId |-> history.BaselineID]
UnmarshalHistory(data) ==
    [RunID |-> data.runId, Timestamp |-> data.timestamp, Statistics |-> data.statistics,
     Endpoints |-> data.endpoints,
     BaselineID |-> IF "baselineId" \in DOMAIN data THEN data.baselineId ELSE EmptyString,
     Degradation |-> data.degradation, ThresholdPct |-> data.thresholdPct,
     GitInfo |-> data.gitInfo]
HistoryMarshals(history) ==
    \A endpoint \in DOMAIN history.Statistics.EndpointStats :
        Finite(history.Statistics.EndpointStats[endpoint].RequestsPerSecond)

\* What a file holds that json.Unmarshal rejects: a truncated or overwritten file.
CorruptData == [corrupt |-> TRUE]
Parses(data) == data # CorruptData
ErrSyntax == "json: syntax error"

\* func (s *Store) LoadLatest() (*TestHistory, error) over the run files of the store:
\* (nil, nil) without run files, (nil, err) when the last one by name does not parse.
LoadLatest(files) ==
    IF DOMAIN files = {} THEN [history |-> NoHistory, err |-> NoErr]
    ELSE LET latest == CHOOSE name \in DOMAIN files :
                           \A other \in DOMAIN files : ~StringLess(name, other)
         IN IF Parses(files[latest])
            THEN [history |-> UnmarshalHistory(files[latest]), err |-> NoErr]
            ELSE [history |-> NoHistory, err |-> ErrSyntax]

\* if err == nil && previous != nil
BaselineLoaded(loaded) == loaded.err = NoErr /\ loaded.history # NoHistory

\* summary := &Summary{EndpointHistory: make(...), Trends: make(...)}, its JSON form and
\* back.
EmptySummary ==
    [LastRun |-> 0, RunCount |-> 0, Degradation |-> FALSE, History |-> <<>>,
     Trends |-> [endpoint \in {} |-> 0], EndpointHistory |-> [endpoint \in {} |-> <<>>]]
MarshalSummary(summary) ==
    [lastRun |-> summary.LastRun, runCount |-> summary.RunCount,
     degradation |-> summary.Degradation, history |-> summary.History,
     trends |-> summary.Trends, endpointHistory |-> summary.EndpointHistory]
UnmarshalSummary(data) ==
    [LastRun |-> data.lastRun, RunCount |-> data.runCount,
     Degradation |-> data.degradation, History |-> data.history,
     Trends |-> data.trends, EndpointHistory |-> data.endpointHistory]
ReadSummary(file) == IF file = NoFile THEN EmptySummary ELSE UnmarshalSummary(file)

\* trend := TrendReport{...} of SaveResults (with ErrorRateTrend) and of updateSummary
\* (without).
SaveTrend(stat) ==
    [CommitHash |-> GitInfo.CommitHash,
     IterationMS |-> stat.AverageDuration, TotalRequests |-> stat.TotalRequests,
     AvgLatencyMS |-> stat.AverageDuration, P50LatencyMS |-> stat.P50Latency,
     P95LatencyMS |-> stat.P95Latency, P99LatencyMS |-> stat.P99Latency,
     RPS |-> stat.RequestsPerSecond,
     ErrorRateTrend |-> FMul(Frac(stat.FailedRequests, stat.TotalRequests), FromInt(100))]
UpdateTrend(stat) == [SaveTrend(stat) EXCEPT !.ErrorRateTrend = FZero]

\* summary.EndpointHistory[endpoint] = append(...); summary.Trends[endpoint] = trend, for
\* every endpoint of `trends`, a map from the endpoints the loop ranges over to the trend
\* built for each.
AppendTrends(summary, trends) ==
    LET keys == DOMAIN trends
        before(endpoint) ==
            IF endpoint \in DOMAIN summary.EndpointHistory
            THEN summary.EndpointHistory[endpoint] ELSE <<>>
    IN [summary EXCEPT
          !.EndpointHistory =
              [endpoint \in DOMAIN summary.EndpointHistory \cup keys |->
                  IF endpoint \in keys
                  THEN Append(before(endpoint), trends[endpoint])
                  ELSE summary.EndpointHistory[endpoint]],
          !.Trends =
              [endpoint \in DOMAIN summary.Trends \cup keys |->
                  IF endpoint \in keys THEN trends[endpoint]
                  ELSE summary.Trends[endpoint]]]

\* func (s *Store) updateSummary(current *TestHistory) error: the summary file it writes
updateSummary(file, current) ==
    LET summary == ReadSummary(file)
        counted == [summary EXCEPT !.LastRun = current.Timestamp,
                                   !.RunCount = @ + 1,
                                   !.History = Append(@, current.RunID),
                                   !.Degradation = current.Degradation]
        trends == [endpoint \in DOMAIN current.Endpoints |->
                      UpdateTrend(current.Endpoints[endpoint].Current)]
    IN MarshalSummary(AppendTrends(counted, trends))

\* os.WriteFile(name, data, 0644): the file holds data, whatever it held.
WriteFileSkipped(file, data) == file
WriteFile(file, data) == data

\* NewStore(baseDir, thresholdPct, useGit) on a fresh directory.
HistoryInit ==
    /\ tasks = TaskList(1)
    /\ workerCount = 1
    /\ requestCount = 1
    /\ RunLocalsInit
    /\ panicked = FALSE
    /\ LoadIdle
    /\ CalcIdle
    /\ PercentIdle
    /\ thresholdPct \in Thresholds
    /\ storeFiles = [id \in {} |-> NoFile]
    /\ storeSummary = NoFile
    /\ now = 0
    /\ saves = 0
    /\ lastPrevious = NoHistory
    /\ lastHistory = NoHistory
    /\ lastErr = NoErr
    /\ DataIdle
    /\ LoadStatsIdle

\* A second of wall clock passes.
Tick ==
    /\ now < MaxSaves
    /\ now' = now + 1
    /\ UNCHANGED <<thresholdPct, storeFiles, storeSummary, saves, lastPrevious,
                   lastHistory, lastErr, notHist>>

\* func (s *Store) SaveResults(stats *stats.Statistics) (*TestHistory, error)
SaveResults(statistics) ==
    /\ LET fresh == [RunID |-> Format(now), Timestamp |-> now,
                     Statistics |-> statistics,
                     Endpoints |-> [endpoint \in {} |-> 0],
                     BaselineID |-> EmptyString, Degradation |-> FALSE,
                     ThresholdPct |-> thresholdPct, GitInfo |-> GitInfo]
           loaded == LoadLatest(storeFiles)
           previous == loaded.history
           compared == compareWithBaseline(fresh, previous, thresholdPct)
           history ==
               IF ~BaselineLoaded(loaded) THEN fresh
               ELSE [compared.current EXCEPT !.BaselineID = previous.RunID,
                                             !.Degradation = compared.hasDegradation]
           trends == [endpoint \in DOMAIN history.Statistics.EndpointStats |->
                         SaveTrend(history.Statistics.EndpointStats[endpoint])]
           summary == AppendTrends(ReadSummary(storeSummary), trends)
           data == MarshalSummary(summary)
           updated == updateSummary(storeSummary, history)
       IN IF ~HistoryMarshals(history)
          THEN /\ lastHistory' = NoHistory
               /\ lastErr' = "json: unsupported value"
               /\ UNCHANGED <<storeFiles, storeSummary>>
          ELSE /\ storeFiles' =
                       [name \in DOMAIN storeFiles \cup {history.RunID} |->
                           IF name = history.RunID
                           THEN WriteFile(NoFile, MarshalHistory(history))
                           ELSE storeFiles[name]]
               /\ IF storeSummary # NoFile /\ ~Parses(storeSummary)
                  THEN /\ lastHistory' = NoHistory
                       /\ lastErr' = ErrSyntax
                       /\ UNCHANGED storeSummary
                  ELSE /\ storeSummary' =
                              WriteFile(WriteFile(storeSummary, updated), data)
                       /\ lastHistory' = history
                       /\ lastErr' = NoErr
    /\ lastPrevious' = LoadLatest(storeFiles).history
    /\ saves' = saves + 1
    /\ UNCHANGED <<thresholdPct, now, notHist>>

HistoryNext ==
    \/ Tick
    \/ \E statistics \in StatisticsCatalog : saves < MaxSaves /\ SaveResults(statistics)

HistorySpec == HistoryInit /\ [][HistoryNext]_vars

\* The store directory and the wall clock as the environment may leave them between two
\* calls: time.Now() is the local wall clock, which is set back at the end of daylight
\* saving time and by clock corrections; a run file or the summary is left truncated by
\* a write that was interrupted, or overwritten.
ClockStepsBack ==
    /\ now > 0
    /\ now' \in 0..(now - 1)
    /\ UNCHANGED <<thresholdPct, storeFiles, storeSummary, saves, lastPrevious,
                   lastHistory, lastErr, notHist>>
CorruptRunFile ==
    /\ \E name \in DOMAIN storeFiles :
           /\ Parses(storeFiles[name])
           /\ storeFiles' = [storeFiles EXCEPT ![name] = CorruptData]
    /\ UNCHANGED <<thresholdPct, storeSummary, now, saves, lastPrevious, lastHistory,
                   lastErr, notHist>>
CorruptSummary ==
    /\ storeSummary # NoFile
    /\ Parses(storeSummary)
    /\ storeSummary' = CorruptData
    /\ UNCHANGED <<thresholdPct, storeFiles, now, saves, lastPrevious, lastHistory,
                   lastErr, notHist>>

\* Runs over GET /a alone, at two latencies.
FaultStatisticsCatalog ==
    { Calculate(ProfileResults([Method |-> "GET", URL |-> "/a"], pa)) :
        pa \in {Healthy, Slow} }

HistoryFaultNext ==
    \/ Tick
    \/ ClockStepsBack
    \/ CorruptRunFile
    \/ CorruptSummary
    \/ \E statistics \in FaultStatisticsCatalog :
           saves < MaxSaves + 1 /\ SaveResults(statistics)

HistoryFaultSpec == HistoryInit /\ [][HistoryFaultNext]_vars

(* ------------------------ claims about history.Store -------------------- *)
Saved == lastHistory # NoHistory
Compared == IF Saved THEN DOMAIN lastHistory.Endpoints ELSE {}
ComparisonOf(endpoint) == lastHistory.Endpoints[endpoint]
MetricsOf(endpoint) ==
    LET changes == ComparisonOf(endpoint).Changes
    IN { changes.LatencyIncrease, changes.ErrorRateIncrease,
         changes.ThroughputDecrease, changes.SuccessRateDecrease }
Exceeds(metric, threshold) == metric.num * threshold.den > threshold.num * metric.den

\* C14: an endpoint's Comparison is marked degraded if and only if at least one of its
\* four change metrics is strictly greater than the store's threshold; a metric equal to
\* the threshold does not mark it.
C14_DegradedIffAMetricExceeds ==
    \A endpoint \in Compared :
        ComparisonOf(endpoint).Degradation
            <=> \E metric \in MetricsOf(endpoint) : Exceeds(metric, thresholdPct)

\* A Comparison with a metric exactly at the threshold, and none above, is not degraded.
C14_Witness ==
    \E endpoint \in Compared :
        /\ thresholdPct \in MetricsOf(endpoint)
        /\ ~ComparisonOf(endpoint).Degradation

\* Some metric above the threshold marks the Comparison degraded.
DegradedAboveThreshold ==
    \E endpoint \in Compared :
        /\ \E metric \in MetricsOf(endpoint) : Exceeds(metric, thresholdPct)
        /\ ComparisonOf(endpoint).Degradation

\* C15: a Comparison of a current run with failed requests against a baseline with none
\* reports an ErrorRateIncrease above zero.
C15_ErrorIncreaseFromCleanBaseline ==
    \A endpoint \in Compared :
        ( /\ ComparisonOf(endpoint).Previous.FailedRequests = 0
          /\ ComparisonOf(endpoint).Current.FailedRequests > 0 )
        => Exceeds(ComparisonOf(endpoint).Changes.ErrorRateIncrease, FZero)

\* What the code reports there: an ErrorRateIncrease of exactly zero.
CleanBaselineGivesZeroErrorIncrease ==
    \A endpoint \in Compared :
        ComparisonOf(endpoint).Previous.FailedRequests = 0
        => ComparisonOf(endpoint).Changes.ErrorRateIncrease = FZero

\* The baseline had 10 of 10 requests succeed and the current run 5 of 10, 5 failed.
HalvedSuccess(endpoint) ==
    /\ ComparisonOf(endpoint).Previous.TotalRequests = 10
    /\ ComparisonOf(endpoint).Previous.SuccessRequests = 10
    /\ ComparisonOf(endpoint).Current.TotalRequests = 10
    /\ ComparisonOf(endpoint).Current.SuccessRequests = 5
    /\ ComparisonOf(endpoint).Current.FailedRequests = 5

\* C16: with threshold 10.0, an endpoint that went from 10/10 successful requests to 5/10
\* has a degraded Comparison, and the run's Degradation flag is true.
C16_HalvedSuccessIsDegraded ==
    \A endpoint \in Compared :
        (thresholdPct = FromInt(10) /\ HalvedSuccess(endpoint))
        => ComparisonOf(endpoint).Degradation /\ lastHistory.Degradation

C16_Witness ==
    /\ thresholdPct = FromInt(10)
    /\ \E endpoint \in Compared : HalvedSuccess(endpoint)
    /\ lastHistory.Degradation

\* C18: the Degradation flag of the run SaveResults built is true if and only if some
\* compared endpoint's Comparison is degraded; it is false when none is compared.
C18_RunDegradedIffSomeEndpoint ==
    Saved =>
        /\ lastHistory.Degradation
               <=> \E endpoint \in Compared : ComparisonOf(endpoint).Degradation
        /\ (Compared = {} => ~lastHistory.Degradation)

\* A run is degraded by one of its two compared endpoints while the other is not.
C18_Witness ==
    /\ Saved
    /\ lastHistory.Degradation
    /\ \E endpoint \in Compared : ComparisonOf(endpoint).Degradation
    /\ \E endpoint \in Compared : ~ComparisonOf(endpoint).Degradation

\* A run after a baseline with which it shares no endpoint: nothing compared, not degraded.
NothingComparedNotDegraded ==
    /\ Saved
    /\ lastPrevious # NoHistory
    /\ Compared = {}
    /\ ~lastHistory.Degradation

CurrentKeys == DOMAIN lastHistory.Statistics.EndpointStats
BaselineKeys ==
    IF lastPrevious = NoHistory THEN {} ELSE DOMAIN lastPrevious.Statistics.EndpointStats

\* C19: SaveResults' comparison holds a Comparison for exactly the endpoint keys present
\* both in the current and in the baseline statistics; a key of only one of them has none
\* and does not make the run degraded.
C19_ComparesExactlySharedKeys ==
    Saved =>
        /\ Compared = CurrentKeys \cap BaselineKeys
        /\ lastHistory.Degradation =>
               \E endpoint \in CurrentKeys \cap BaselineKeys :
                   ComparisonOf(endpoint).Degradation

\* The current run has an endpoint the baseline lacks, failing all its requests, next to
\* a shared one: only the shared one is compared.
C19_Witness ==
    /\ Saved
    /\ lastPrevious # NoHistory
    /\ Compared # {}
    /\ \E endpoint \in CurrentKeys \ BaselineKeys :
           lastHistory.Statistics.EndpointStats[endpoint].FailedRequests > 0
    /\ ~lastHistory.Degradation

\* The baseline has an endpoint the current run lacks.
BaselineOnlyKeySkipped ==
    /\ Saved
    /\ BaselineKeys \ CurrentKeys # {}
    /\ Compared # {}

(* ------------------- the end-to-end scenario of Run --------------------- *)
\* 2 endpoints, threadCount = 4, requestCount = 10. Both endpoints carry a method that
\* http.NewRequest refuses, so that every attempt has one outcome, a Result with its
\* error set, and the run differs only in its interleaving.
Scenario == [endpoints |-> 2, threadCount |-> 4, requestCount |-> 10]
ScenarioTasks == [i \in 1..Scenario.endpoints |->
                     [Method |-> "G T", URL |-> IF i = 1 THEN "/a" ELSE "/b"]]

\* NewRunner(tasks, threadCount, requestCount), then Run().
ScenarioInit ==
    /\ tasks = ScenarioTasks
    /\ workerCount = Scenario.threadCount
    /\ requestCount = Scenario.requestCount
    /\ RunLocals(1..Scenario.threadCount)
    /\ panicked = FALSE
    /\ LoadIdle
    /\ CalcIdle
    /\ PercentIdle
    /\ HistoryIdle
    /\ DataIdle
    /\ LoadStatsIdle

ScenarioSpec == ScenarioInit /\ [][RunNext]_vars

InScenario ==
    /\ tasks = ScenarioTasks
    /\ workerCount = Scenario.threadCount
    /\ requestCount = Scenario.requestCount

\* C20 as stated: with 2 endpoints, threadCount = 4 and requestCount = 10 the run
\* produces 80 Results in total.
C20_ScenarioResultsAsStated ==
    (InScenario /\ runPc = "returned") => Len(results) = 80

\* C20: with 2 endpoints, threadCount = 4 and requestCount = 10 the run produces 20
\* Results in total, 10 for each endpoint.
C20_ScenarioResults ==
    (InScenario /\ runPc = "returned") =>
        /\ Len(results) = 20
        /\ \A i \in 1..Len(tasks) :
               Cardinality(ResultsOf(EndpointOf(tasks[i]))) = 10

\* The run returned its 20 Results after all four workers were launched, and workers
\* ran side by side: a Result of the second endpoint arrived before one of the first.
C20_Witness ==
    /\ InScenario
    /\ runPc = "returned"
    /\ launched = 4
    /\ Len(results) = 20
    /\ \E i, j \in 1..Len(results) :
           i < j /\ results[i].URL = "/b" /\ results[j].URL = "/a"

(* ------------- claims: the step's result buffer, once closed ------------ *)
\* C30: no virtual user ever attempts to push a Result onto a step's result buffer after
\* the controller has closed it (a send on a closed channel, which aborts the program),
\* whatever the interleaving of controller and users.
C30_NoPushOnClosedBuffer ==
    \A u \in DOMAIN userPc : userPc[u] # "panic"

\* What the code does guarantee: a push that finds the buffer open never aborts.
PushAbortsOnlyOnClosedBuffer ==
    [][(\E u \in DOMAIN userPc : userPc[u] # "panic" /\ userPc'[u] = "panic")
          => bufCloses > 0]_vars

(* ------------------------ stats.CalculateLoadTest ----------------------- *)
\* How many steps a load test hands to CalculateLoadTest.
MaxSteps == 3

FAdd(a, b) == Frac(a.num * b.den + b.num * a.den, a.den * b.den)

\* for _, es := range stats.EndpointStats { total += ... }: the sums the helper functions
\* take over the endpoint entries (a sum does not depend on the map's iteration order).
RECURSIVE SumAverageDuration(_, _)
SumAverageDuration(endpointStats, keys) ==
    IF keys = {} THEN 0
    ELSE LET k == CHOOSE key \in keys : TRUE
         IN endpointStats[k].AverageDuration + SumAverageDuration(endpointStats, keys \ {k})
RECURSIVE SumTotalRequests(_, _)
SumTotalRequests(endpointStats, keys) ==
    IF keys = {} THEN 0
    ELSE LET k == CHOOSE key \in keys : TRUE
         IN endpointStats[k].TotalRequests + SumTotalRequests(endpointStats, keys \ {k})
RECURSIVE SumSuccessRequests(_, _)
SumSuccessRequests(endpointStats, keys) ==
    IF keys = {} THEN 0
    ELSE LET k == CHOOSE key \in keys : TRUE
         IN endpointStats[k].SuccessRequests
                + SumSuccessRequests(endpointStats, keys \ {k})
RECURSIVE SumRequestsPerSecond(_, _)
SumRequestsPerSecond(endpointStats, keys) ==
    IF keys = {} THEN FZero
    ELSE LET k == CHOOSE key \in keys : TRUE
         IN FAdd(RateValue(endpointStats[k].RequestsPerSecond),
                 SumRequestsPerSecond(endpointStats, keys \ {k}))

\* func calculateAverageLatency(stats *Statistics) time.Duration
calculateAverageLatency(statistics) ==
    LET count == Cardinality(DOMAIN statistics.EndpointStats)
    IN IF count = 0 THEN 0
       ELSE SumAverageDuration(statistics.EndpointStats, DOMAIN statistics.EndpointStats)
                \div count

\* func calculateOverallRPS(stats *Statistics) float64
calculateOverallRPS(statistics) ==
    SumRequestsPerSecond(statistics.EndpointStats, DOMAIN statistics.EndpointStats)

\* func countTotalRequests(stats *Statistics) int
countTotalRequests(statistics) ==
    SumTotalRequests(statistics.EndpointStats, DOMAIN statistics.EndpointStats)

\* func calculateOverallSuccessRate(stats *Statistics) float64
calculateOverallSuccessRate(statistics) ==
    LET total == countTotalRequests(statistics)
        totalSuccess ==
            SumSuccessRequests(statistics.EndpointStats, DOMAIN statistics.EndpointStats)
    IN IF total = 0 THEN FZero
       ELSE FMul(Frac(totalSuccess, total), FromInt(100))

\* func calculateOverallErrorRate(stats *Statistics) float64
calculateOverallErrorRate(statistics) ==
    FSub(FromInt(100), calculateOverallSuccessRate(statistics))

\* func updateLatencyStats(stats *LoadTestStats, latency time.Duration)
MinLatencyUnchecked(old, latency) == latency
MinLatencyAfter(old, latency) == IF old = 0 \/ latency < old THEN latency ELSE old
MaxLatencyAfter(old, latency) == IF latency > old THEN latency ELSE old
AverageLatencyAfter(old, latency) == IF old = 0 THEN latency ELSE (old + latency) \div 2
updateLatencyStats(stats, latency) ==
    [stats EXCEPT !.MinLatency = MinLatencyAfter(@, latency),
                  !.MaxLatency = MaxLatencyAfter(@, latency),
                  !.AverageLatency = AverageLatencyAfter(@, latency)]

\* stats := &LoadTestStats{EndpointStats: make(map[string]LoadStats)}
EmptyLoadTestStats ==
    [Steps |-> <<>>, EndpointStats |-> [endpoint \in {} |-> 0], AverageLatency |-> 0,
     MaxLatency |-> 0, MinLatency |-> 0, TotalRequests |-> 0, TestDuration |-> 0]

\* The body of CalculateLoadTest's loop for one step; a panic of Calculate unwinds it.
CountStep(stats, result) ==
    LET stepStats == Calculate(result.Results)
        avgLatency == calculateAverageLatency(stepStats)
        step == [UserCount |-> result.UserCount, DataSize |-> result.DataSize,
                 AverageLatency |-> avgLatency,
                 RequestsPerSecond |-> calculateOverallRPS(stepStats),
                 SuccessRate |-> calculateOverallSuccessRate(stepStats),
                 ErrorRate |-> calculateOverallErrorRate(stepStats)]
    IN IF stats = CalcPanic \/ stepStats = CalcPanic THEN CalcPanic
       ELSE updateLatencyStats(
                [stats EXCEPT !.Steps = Append(@, step),
                              !.TotalRequests = @ + countTotalRequests(stepStats)],
                avgLatency)

\* func CalculateLoadTest(results []runner.LoadTestResult) *LoadTestStats
RECURSIVE CalculateLoadTestFrom(_, _, _)
CalculateLoadTestFrom(stats, rs, i) ==
    IF i > Len(rs) THEN stats
    ELSE CalculateLoadTestFrom(CountStep(stats, rs[i]), rs, i + 1)
CalculateLoadTest(rs) == CalculateLoadTestFrom(EmptyLoadTestStats, rs, 1)

\* The Results a step of a load test returns: none; one request of GET /a, alone or with
\* a failed request of GET /b; or a failed GET /a next to an answered POST /a.
GetA == [Method |-> "GET", URL |-> "/a"]
StepResultsCatalog ==
    LET ofA == { <<MakeResult(GetA, o, 0)>> : o \in CalcOutcomes(GetA) }
        failedB == MakeResult([Method |-> "GET", URL |-> "/b"],
                              [StatusCode |-> 0, Duration |-> 1, Error |-> ErrTransport], 0)
        answeredPost == MakeResult([Method |-> "POST", URL |-> "/a"],
                                   [StatusCode |-> 200, Duration |-> 1, Error |-> NoError], 0)
    IN { <<>> } \cup ofA \cup { Append(rs, failedB) : rs \in ofA }
         \cup { <<MakeResult(GetA, [StatusCode |-> 0, Duration |-> 1,
                                    Error |-> ErrTransport], 0), answeredPost>> }

\* The caller of CalculateLoadTest has gathered no step yet.
LoadStatsInit ==
    /\ tasks = TaskList(1)
    /\ workerCount = 1
    /\ requestCount = 1
    /\ RunLocalsInit
    /\ panicked = FALSE
    /\ LoadIdle
    /\ CalcIdle
    /\ PercentIdle
    /\ HistoryIdle
    /\ DataIdle
    /\ ltInput = <<>>
    /\ ltPc = "collecting"
    /\ ltOutput = NoStatistics

\* results = append(results, LoadTestResult{...}): the load test ends one more step.
StepEnds(ended) ==
    /\ ~panicked
    /\ ltPc = "collecting"
    /\ Len(ltInput) < MaxSteps
    /\ ltInput' = Append(ltInput, [UserCount |-> Len(ltInput) + 1, DataSize |-> 0,
                                   Results |-> ended])
    /\ UNCHANGED <<ltPc, ltOutput, notLt>>

\* loadStats := stats.CalculateLoadTest(results): the call returns.
CalculateLoadTestReturns ==
    /\ ~panicked
    /\ ltPc = "collecting"
    /\ CalculateLoadTest(ltInput) # CalcPanic
    /\ ltOutput' = CalculateLoadTest(ltInput)
    /\ ltPc' = "done"
    /\ UNCHANGED <<ltInput, notLt>>

\* A step's Calculate panics: the process is gone.
CalculateLoadTestPanics ==
    /\ ~panicked
    /\ ltPc = "collecting"
    /\ CalculateLoadTest(ltInput) = CalcPanic
    /\ ltOutput' = CalcPanic
    /\ ltPc' = "done"
    /\ panicked' = TRUE
    /\ UNCHANGED <<ltInput, tasks, workerCount, requestCount, runLocals, loadVars,
                   calcVars, pctVars, histVars, dataVars>>

LoadStatsNext ==
    \/ \E ended \in StepResultsCatalog : StepEnds(ended)
    \/ CalculateLoadTestReturns
    \/ CalculateLoadTestPanics

LoadStatsSpec == LoadStatsInit /\ [][LoadStatsNext]_vars

(* -------------------- claims about CalculateLoadTest -------------------- *)
LoadStatsReturned == ltPc = "done" /\ ltOutput # CalcPanic
\* The per-step average latencies, as recorded in the returned Steps.
StepLatency(i) == ltOutput.Steps[i].AverageLatency
StepLatencies == { StepLatency(i) : i \in 1..Len(ltOutput.Steps) }

\* C28: after CalculateLoadTest, MinLatency is the minimum and MaxLatency the maximum of
\* the per-step average latencies of all steps.
C28_MinMaxOverSteps ==
    (LoadStatsReturned /\ Len(ltInput) > 0) =>
        /\ ltOutput.MinLatency \in StepLatencies
        /\ \A latency \in StepLatencies : ltOutput.MinLatency <= latency
        /\ ltOutput.MaxLatency \in StepLatencies
        /\ \A latency \in StepLatencies : ltOutput.MaxLatency >= latency

\* What holds of every returning call: MaxLatency is the maximum, and MinLatency is the
\* minimum when no step before the last has a zero average latency.
MaxLatencyIsMaximum ==
    (LoadStatsReturned /\ Len(ltInput) > 0) =>
        /\ ltOutput.MaxLatency \in StepLatencies
        /\ \A latency \in StepLatencies : ltOutput.MaxLatency >= latency
MinLatencyOverNonZeroSteps ==
    (LoadStatsReturned /\ Len(ltInput) > 0
       /\ \A i \in 1..(Len(ltOutput.Steps) - 1) : StepLatency(i) # 0) =>
        /\ ltOutput.MinLatency \in StepLatencies
        /\ \A latency \in StepLatencies : ltOutput.MinLatency <= latency

\* (old + new)/2 applied step after step, from the first step's latency.
RECURSIVE PairwiseAverage(_)
PairwiseAverage(n) ==
    IF n = 1 THEN StepLatency(1)
    ELSE (PairwiseAverage(n - 1) + StepLatency(n)) \div 2

\* C29: AverageLatency is the first step's average latency after the first step, and on
\* every later step it is replaced by (old + new)/2, new being that step's latency.
C29_AverageIsPairwise ==
    (LoadStatsReturned /\ Len(ltInput) > 0) =>
        ltOutput.AverageLatency = PairwiseAverage(Len(ltOutput.Steps))

\* What holds of every returning call: the rule is followed while the running average
\* is not zero.
RECURSIVE PairwiseAverageNeverZero(_)
PairwiseAverageNeverZero(n) ==
    IF n = 0 THEN TRUE
    ELSE PairwiseAverage(n) # 0 /\ PairwiseAverageNeverZero(n - 1)
AverageIsPairwiseWhileNonZero ==
    (LoadStatsReturned /\ Len(ltInput) > 0
       /\ PairwiseAverageNeverZero(Len(ltOutput.Steps) - 1)) =>
        ltOutput.AverageLatency = PairwiseAverage(Len(ltOutput.Steps))

(* ------------------------ Runner.RunDataLoadTest ------------------------ *)
\* How many steps a DataLoadConfig asks for at most, and the width the model gives to
\* Go's int (64 bits in the builds, fewer here: the conversion of a float64 that no int
\* holds behaves the same at any width).
MaxDataSteps == 4
IntBits == 18
MaxInt == 2^(IntBits - 1) - 1
MinInt == -(2^(IntBits - 1))

\* func calculateRequestCount(dataSize int) int
calculateRequestCountFlat(dataSize) == 100
calculateRequestCount(dataSize) ==
    IF dataSize < 1000 THEN 100
    ELSE IF dataSize < 10000 THEN 50
    ELSE IF dataSize < 100000 THEN 20
    ELSE 10

\* The truncation toward zero of the fraction x.
Trunc(x) == IF x.num >= 0 THEN x.num \div x.den ELSE -((-x.num) \div x.den)

\* int(x) for a float64 x: the truncation when an int holds it. When none does the
\* result depends on the build (the language leaves it open): the smallest int on amd64,
\* the nearest int on arm64.
IntOfFloat(x) ==
    IF Trunc(x) > MaxInt THEN {MinInt, MaxInt}
    ELSE IF Trunc(x) < MinInt THEN {MinInt}
    ELSE {Trunc(x)}

\* The configurations a data load test is run with: the defaults (1000, 100000, 5.0, 4)
\* and their neighbours, a multiplier below 1, and one that outgrows the int.
DataLoadConfigs ==
    [InitialDataSize : {999, 1000},
     MaxDataSize : {100000, MaxInt},
     DataSizeMultiplier : {Frac(1, 2), FromInt(5), FromInt(1000)},
     StepsCount : 0..MaxDataSteps]

\* for step := 0; step < config.StepsCount && currentSize <= config.MaxDataSize; step++
DataLoopContinuesPastMax == dataStep < dataConfig.StepsCount
DataLoopContinues ==
    dataStep < dataConfig.StepsCount /\ currentSize <= dataConfig.MaxDataSize

\* r.requestCount = originalRequestCount, after the step's run.
RequestCountKept(original, current) == current
RequestCountRestored(original, current) == original

\* a.runner.RunDataLoadTest(config) on a runner with one endpoint, whose requests fail at
\* construction (each attempt then has a single outcome), and the default request count.
DataInit ==
    /\ tasks = SubSeq(ScenarioTasks, 1, 1)
    /\ workerCount \in 0..1
    /\ requestCount = 1
    /\ RunLocalsInit
    /\ panicked = FALSE
    /\ LoadIdle
    /\ CalcIdle
    /\ PercentIdle
    /\ HistoryIdle
    /\ LoadStatsIdle
    /\ dataConfig \in DataLoadConfigs
    /\ dataPc = "loop"
    /\ dataStep = 0
    /\ currentSize = dataConfig.InitialDataSize
    /\ originalRequestCount = 0
    /\ dataResults = <<>>

\* originalRequestCount := r.requestCount; r.requestCount = calculateRequestCount(...);
\* testResults := r.Run(): Run is entered, with fresh locals.
DataStepBegin ==
    /\ ~panicked
    /\ dataPc = "loop"
    /\ DataLoopContinues
    /\ originalRequestCount' = requestCount
    /\ requestCount' = calculateRequestCount(currentSize)
    /\ dataPc' = "running"
    /\ runPc' = "launch"
    /\ launched' = 0
    /\ wg' = 0
    /\ taskChanClosed' = FALSE
    /\ resultChanCloses' = 0
    /\ producerPc' = "idle"
    /\ prodTask' = 1
    /\ prodI' = 0
    /\ closerPc' = "idle"
    /\ reporterPc' = "idle"
    /\ workerPc' = [w \in DOMAIN workerPc |-> "idle"]
    /\ workerTask' = [w \in DOMAIN workerPc |-> NoTask]
    /\ workerResult' = [w \in DOMAIN workerPc |-> NoResult]
    /\ results' = <<>>
    /\ completedRequests' = 0
    /\ UNCHANGED <<tasks, workerCount, transportLog, panicked, dataConfig, dataStep,
                   currentSize, dataResults, notData>>

\* The steps of Run, its producer, its closer and its workers during the step.
DataRun ==
    /\ dataPc = "running"
    /\ runPc # "returned"
    /\ RunNext

\* int(float64(currentSize) * config.DataSizeMultiplier): what it can yield.
NextSizes == IntOfFloat(FMul(FromInt(currentSize), dataConfig.DataSizeMultiplier))

\* results = append(results, LoadTestResult{DataSize, Results, Timestamp}): the literal
\* names neither UserCount nor StepNumber, which keep their zero value;
\* r.requestCount = originalRequestCount;
\* currentSize = int(float64(currentSize) * config.DataSizeMultiplier); time.Sleep(...)
DataStepEnd(nextSize) ==
    /\ ~panicked
    /\ dataPc = "running"
    /\ runPc = "returned"
    /\ dataResults' = Append(dataResults,
                             [DataSize |-> currentSize, Results |-> results,
                              UserCount |-> 0, StepNumber |-> 0])
    /\ requestCount' = RequestCountRestored(originalRequestCount, requestCount)
    /\ currentSize' = nextSize
    /\ dataStep' = dataStep + 1
    /\ dataPc' = "loop"
    /\ UNCHANGED <<tasks, workerCount, runLocals, panicked, dataConfig,
                   originalRequestCount, notData>>

\* return results
DataReturn ==
    /\ ~panicked
    /\ dataPc = "loop"
    /\ ~DataLoopContinues
    /\ dataPc' = "returned"
    /\ UNCHANGED <<runVars, dataConfig, dataStep, currentSize, originalRequestCount,
                   dataResults, notData>>

DataLoadNext ==
    \/ DataStepBegin
    \/ DataRun
    \/ \E nextSize \in NextSizes : DataStepEnd(nextSize)
    \/ DataReturn

DataLoadSpec == DataInit /\ [][DataLoadNext]_vars

(* --------------------- claims about RunDataLoadTest --------------------- *)
DataReturned == dataPc = "returned"
StepSize(k) == dataResults[k].DataSize
\* s(k+1) = trunc(s(k) * dataSizeMultiplier), as a number.
ScaledSize(size) == Trunc(FMul(FromInt(size), dataConfig.DataSizeMultiplier))

\* The number of steps the rule of C21 gives: the first index that is >= stepsCount or
\* whose size is > maxDataSize.
RECURSIVE RuleSteps(_, _)
RuleSteps(k, size) ==
    IF k >= dataConfig.StepsCount \/ size > dataConfig.MaxDataSize THEN k
    ELSE RuleSteps(k + 1, ScaledSize(size))

\* C21: RunDataLoadTest executes the steps of sizes s0 = initialDataSize, s(k+1) =
\* trunc(s(k) * dataSizeMultiplier), stopping before the first step with index >=
\* stepsCount or size > maxDataSize: never more than stepsCount steps, never a step with
\* a size above maxDataSize.
C21_StepsFollowScaledSizes ==
    /\ Len(dataResults) <= dataConfig.StepsCount
    /\ \A k \in 1..Len(dataResults) :
           /\ StepSize(k) <= dataConfig.MaxDataSize
           /\ StepSize(k) = IF k = 1 THEN dataConfig.InitialDataSize
                            ELSE ScaledSize(StepSize(k - 1))
    /\ DataReturned => Len(dataResults) = RuleSteps(0, dataConfig.InitialDataSize)

\* What holds whatever the multiplier: at most stepsCount steps, none above maxDataSize,
\* and the loop counter never passes stepsCount (each step ends the run it starts only
\* once, so the operation ends).
DataStepsWithinLimits ==
    /\ Len(dataResults) <= dataConfig.StepsCount
    /\ dataStep <= dataConfig.StepsCount
    /\ dataStep = Len(dataResults)
    /\ \A k \in 1..Len(dataResults) : StepSize(k) <= dataConfig.MaxDataSize

\* And while every scaled size is one an int holds, the sizes are the rule's.
AllRepresentable ==
    \A k \in 1..Len(dataResults) :
        ScaledSize(StepSize(k)) <= MaxInt /\ ScaledSize(StepSize(k)) >= MinInt
SizesFollowWhileRepresentable ==
    AllRepresentable =>
        /\ \A k \in 1..Len(dataResults) :
               StepSize(k) = IF k = 1 THEN dataConfig.InitialDataSize
                              ELSE ScaledSize(StepSize(k - 1))
        /\ DataReturned => Len(dataResults) = RuleSteps(0, dataConfig.InitialDataSize)

\* The request count of the size bands.
Band(size) ==
    IF size < 1000 THEN 100 ELSE IF size < 10000 THEN 50 ELSE IF size < 100000 THEN 20 ELSE 10

\* C22: the per-task request count of a data-volume step is 100 below 1,000, 50 below
\* 10,000, 20 below 100,000 and 10 otherwise, non-increasing in the size; the step's
\* pool run uses that count, and the step returns N * count Results.
C22_StepUsesBandCount ==
    /\ dataPc = "running" => requestCount = Band(currentSize)
    /\ \A k \in 1..Len(dataResults) :
           Len(dataResults[k].Results) = Len(tasks) * Band(StepSize(k))
    /\ \A j, k \in 1..Len(dataResults) :
           StepSize(j) <= StepSize(k) => Band(StepSize(j)) >= Band(StepSize(k))

\* The same with at least one worker.
StepUsesBandCountWithWorkers ==
    workerCount >= 1 => C22_StepUsesBandCount

\* The sizes of the steps run so far.
StepSizes == [k \in 1..Len(dataResults) |-> StepSize(k)]
ScenarioConfig ==
    /\ dataConfig.InitialDataSize = 1000
    /\ dataConfig.DataSizeMultiplier = FromInt(5)
    /\ dataConfig.StepsCount = 4

\* C23 as stated: with initialDataSize = 1000, multiplier = 5, stepsCount = 4 the steps
\* have the sizes [1000, 5000, 25000, 125000] and the request counts [100, 50, 50, 20].
C23_ScenarioStepsAsStated ==
    ScenarioConfig =>
        /\ DataReturned => StepSizes = <<1000, 5000, 25000, 125000>>
        /\ dataPc = "running" => requestCount = <<100, 50, 50, 20>>[dataStep + 1]

\* C23: with initialDataSize = 1000, multiplier = 5, stepsCount = 4 and a maxDataSize of
\* at least 125000 the steps have the sizes [1000, 5000, 25000, 125000] and the request
\* counts [50, 50, 20, 10]; with the default maxDataSize of 100000 only the first three
\* of them are run.
C23_ScenarioSteps ==
    ScenarioConfig =>
        /\ (DataReturned /\ dataConfig.MaxDataSize >= 125000)
               => StepSizes = <<1000, 5000, 25000, 125000>>
        /\ (DataReturned /\ dataConfig.MaxDataSize = 100000)
               => StepSizes = <<1000, 5000, 25000>>
        /\ dataPc = "running" =>
               /\ currentSize = <<1000, 5000, 25000, 125000>>[dataStep + 1]
               /\ requestCount = <<50, 50, 20, 10>>[dataStep + 1]

\* The four steps have been run, by a pool with workers.
C23_Witness ==
    /\ ScenarioConfig
    /\ DataReturned
    /\ workerCount >= 1
    /\ Len(dataResults) = 4
    /\ Len(dataResults[4].Results) = 10

\* C24: RunDataLoadTest leaves the runner's repetition count unchanged: after every step
\* and when the operation returns, requestCount is what it was before the call (1, the
\* default); the task list and the worker count are never modified.
C24_RequestCountRestored ==
    /\ [](dataPc \in {"loop", "returned"} => requestCount = 1)
    /\ [][tasks' = tasks /\ workerCount' = workerCount]_vars

\* The operation returned after steps that ran with 100 and 50 repetitions.
C24_Witness ==
    /\ DataReturned
    /\ Len(dataResults) >= 2
    /\ Len(dataResults[1].Results) = 100
    /\ Len(dataResults[2].Results) = 50
    /\ requestCount = 1

(* ------------------- claims about the stored baseline ------------------- *)
\* A step that is one SaveResults call.
SaveResultsStep == saves' = saves + 1
LatestLoad == LoadLatest(storeFiles)

\* C25: if the previous baseline cannot be loaded because the stored state is corrupt
\* (the latest history file does not parse), SaveResults returns a failure to its caller;
\* it does not proceed without a comparison.
C25_CorruptBaselinePropagates ==
    [][(SaveResultsStep /\ LatestLoad.err # NoErr) => lastErr' # NoErr]_vars

\* What SaveResults does instead: the run is saved as if there were no baseline.
CorruptBaselineSavedAsFirstRun ==
    [][(SaveResultsStep /\ LatestLoad.err # NoErr /\ lastErr' = NoErr)
           => /\ lastHistory'.BaselineID = EmptyString
              /\ DOMAIN lastHistory'.Endpoints = {}
              /\ ~lastHistory'.Degradation]_vars

\* C26: when no baseline is stored (no earlier run file in the store directory),
\* SaveResults succeeds without error, performs no comparison (no Comparison entries,
\* empty BaselineID) and reports Degradation = false; the current run is still persisted.
C26_NoBaselineIsNoError ==
    [][(SaveResultsStep /\ DOMAIN storeFiles = {})
           => /\ lastErr' = NoErr
              /\ lastHistory' # NoHistory
              /\ DOMAIN lastHistory'.Endpoints = {}
              /\ lastHistory'.BaselineID = EmptyString
              /\ ~lastHistory'.Degradation
              /\ DOMAIN storeFiles' = {lastHistory'.RunID}
              /\ storeFiles'[lastHistory'.RunID] = MarshalHistory(lastHistory')]_vars

\* The first run of a store, with failed requests, was saved without a baseline.
C26_Witness ==
    /\ saves = 1
    /\ Saved
    /\ lastErr = NoErr
    /\ lastPrevious = NoHistory
    /\ lastHistory.BaselineID = EmptyString
    /\ DOMAIN storeFiles = {lastHistory.RunID}
    /\ \E endpoint \in CurrentKeys :
           lastHistory.Statistics.EndpointStats[endpoint].FailedRequests > 0

\* C27: for every sequence of successful SaveResults calls on one store directory, each
\* run after the first is compared against the immediately preceding saved run: its
\* BaselineID is that run's RunID and the baseline it loaded is that run, never the run
\* itself and never an older run.
C27_ComparedWithPrecedingRun ==
    [][(SaveResultsStep /\ lastErr = NoErr /\ lastHistory # NoHistory
           /\ lastErr' = NoErr /\ LatestLoad.err = NoErr)
           => /\ lastHistory'.BaselineID = lastHistory.RunID
              /\ lastPrevious' = lastHistory]_vars

\* The same holds of every call made while the baseline is read before the current run
\* is written and the clock has not been set back.
BaselineReadBeforeWrite ==
    [][(SaveResultsStep /\ BaselineLoaded(LatestLoad) /\ lastErr' = NoErr)
           => lastPrevious' = LatestLoad.history]_vars

(* ------------- claims about the steps of RunUserLoadTest --------------- *)
\* Go schedules every runnable goroutine, and the step's timer fires.
UserLoadFairSpec ==
    /\ UserLoadSpec
    /\ WF_vars(LoadController)
    /\ WF_vars(DeadlineFires)
    /\ \A u \in UserIDs : WF_vars(User(u))

InIteration(u) == userPc[u] \in {"request", "push", "count"}
BetweenIterations(u) == userPc[u] \in {"stagger", "think"}
Moves(u) == userPc'[u] # userPc[u]

\* C31: after a step's deadline has fired, a virtual user completes the iteration it is
\* in (the request in flight is not aborted, its Result is pushed or dropped and the
\* user reaches its think-time), issues no further request once it is at its
\* next-iteration check, and exits; the controller gets past its wait only when every
\* virtual user of the step has exited.
C31_UsersFinishIterationAndExit ==
    /\ [][\A u \in UserIDs :
            (ctxState = "done" /\ InIteration(u) /\ Moves(u))
                => userPc'[u] \in {"push", "count", "think"}]_vars
    /\ [][\A u \in UserIDs :
            (ctxState = "done" /\ BetweenIterations(u) /\ Moves(u))
                => userPc'[u] = "done"]_vars
    /\ [](ctlPc \in {"cooldown", "returned"} => UsersFinished)

\* What holds of the users after the deadline: none issues a request at its
\* next-iteration check, and the controller passes its wait only after all have exited.
UsersStopAtNextIterationCheck ==
    /\ [][\A u \in UserIDs :
            (ctxState = "done" /\ BetweenIterations(u) /\ Moves(u))
                => userPc'[u] = "done"]_vars
    /\ [](ctlPc \in {"cooldown", "returned"} => UsersFinished)

\* Under fair scheduling every call ends: it returns, or a push on the closed buffer
\* has ended the process.
LoadTestEnds == <>(ctlPc = "returned" \/ panicked)

LaunchedUsers == { u \in UserIDs : userPc[u] # "idle" }
StepUsersOf(k) == config.StartUsers + k * config.StepUsers

\* C32: step k (k = 0, 1, ...) of RunUserLoadTest launches exactly startUsers +
\* k*stepUsers virtual users and records that number as the step's UserCount; no step
\* runs with more than maxUsers users.
C32_StepLaunchesItsUserCount ==
    /\ ctlPc \notin {"idle", "returned"} => currentUsers = StepUsersOf(stepNumber)
    /\ ctlPc \in {"close", "drain", "cancel", "wait"} =>
           /\ userLaunched = currentUsers
           /\ Cardinality(LaunchedUsers) = currentUsers
    /\ Cardinality(LaunchedUsers) <= config.MaxUsers
    /\ \A k \in 1..Len(loadResults) :
           /\ loadResults[k].UserCount = StepUsersOf(k - 1)
           /\ loadResults[k].UserCount <= config.MaxUsers

\* A ramp of one user, then two, has been run and recorded.
C32_Witness ==
    /\ ctlPc = "returned"
    /\ Len(loadResults) = 2
    /\ loadResults[1].UserCount = 1
    /\ loadResults[2].UserCount = 2

\* C33: user-ramp steps never overlap: when a step launches its virtual users every
\* virtual user of the step before has terminated and the step's buffer is empty, so a
\* step's LoadTestResult holds only Results of that step's own users (users 0 to
\* UserCount - 1).
C33_StepsDoNotOverlap ==
    /\ [][(ctlPc = "loop" /\ ctlPc' = "launch") => UsersFinished]_vars
    /\ [](ctlPc \in {"cooldown", "loop", "returned"} => UsersFinished)
    /\ []((ctlPc = "launch" /\ userLaunched = 0) => (bufChan = <<>> /\ stepResults = <<>>))
    /\ [](\A k \in 1..Len(loadResults) :
            \A i \in 1..Len(loadResults[k].Results) :
                loadResults[k].Results[i].ThreadID \in 0..(loadResults[k].UserCount - 1))

\* The second step is launching its users after a first step that recorded a Result.
C33_Witness ==
    /\ ctlPc = "launch"
    /\ stepNumber = 1
    /\ userLaunched >= 1
    /\ Len(loadResults) = 1
    /\ loadResults[1].Results # <<>>

LastStep == loadResults[Len(loadResults)]

\* C34: for every user-ramp step the number of Results in the step's LoadTestResult is
\* the final value of the step's total-requests counter (the value once the step's users
\* have been waited for; a dropped Result is never counted) and is at most currentUsers
\* times the number of tasks.
C34_ResultsAreTheCountedRequests ==
    /\ (ctlPc \in {"cooldown", "loop", "returned"} /\ Len(loadResults) > 0) =>
           Len(LastStep.Results) = totalRequests
    /\ totalRequests <= Len(stepResults) + Len(bufChan)
    /\ \A k \in 1..Len(loadResults) :
           Len(loadResults[k].Results) <= loadResults[k].UserCount * Len(tasks)

\* A step whose buffer was full when it was drained, and whose users have been waited
\* for.
C34_Witness ==
    /\ ctlPc = "cooldown"
    /\ Len(LastStep.Results) = LastStep.UserCount * Len(tasks)
    /\ totalRequests = Len(LastStep.Results)

(* ------------------ claims about the goroutines of Run ----------------- *)
\* C35: when Run returns, every goroutine it started (the W workers, the producer, the
\* channel closer and the progress reporter) has terminated; none is left blocked, so
\* repeated Run calls do not accumulate blocked goroutines.
C35_GoroutinesEndWithRun ==
    runPc = "returned" =>
        /\ AllWorkersExited
        /\ producerPc = "done"
        /\ closerPc = "done"
        /\ reporterPc = "done"

\* With at least one worker the workers, the producer and the closer have terminated
\* when Run returns.
PoolGoroutinesEndWithRun ==
    (runPc = "returned" /\ workerCount >= 1) =>
        /\ AllWorkersExited
        /\ producerPc = "done"
        /\ closerPc = "done"

\* The progress goroutine is blocked after every Run call that returned, and stays so.
ReporterLeftBlocked ==
    /\ [](runPc = "returned" => reporterPc = "blocked")
    /\ [][reporterPc = "blocked" => reporterPc' = "blocked"]_vars

(* ------------- claims about the order of Calculate's input ------------- *)
\* The rearrangements of a Result sequence: every permutation of a sequence of up to
\* three Results; of a longer one the reversal and, while the caller gathered it, the
\* exchange of its first two Results and its rotation by one (the two generate every
\* permutation, and the sequences the caller gathers are closed under them).
Permuted(rs, f) == [i \in 1..Len(rs) |-> rs[f[i]]]
Reversed(rs) == [i \in 1..Len(rs) |-> rs[Len(rs) + 1 - i]]
FirstTwoExchanged(rs) == <<rs[2], rs[1]>> \o SubSeq(rs, 3, Len(rs))
Rotated(rs) == Append(Tail(rs), Head(rs))
Rearrangements(rs) ==
    IF Len(rs) <= 3 THEN { Permuted(rs, f) : f \in Permutations(1..Len(rs)) }
    ELSE IF Len(rs) <= MaxResults THEN { FirstTwoExchanged(rs), Rotated(rs) }
    ELSE { Reversed(rs) }

\* C36: Calculate is a function of the multiset of Results: for every Result sequence
\* and every permutation of it the call ends the same way, with Statistics identical in
\* every per-endpoint field and in the totals (or, on a sequence it panics on, with the
\* panic).
C36_CalculateIgnoresOrder ==
    calcPc = "done" =>
        \A other \in Rearrangements(calcInput) : Calculate(other) = calcOutput

\* Statistics were returned for a sequence with two different durations of one endpoint
\* and a Result of another one in between.
C36_Witness ==
    /\ Returned
    /\ Len(calcInput) = 3
    /\ EndpointKey(calcInput[1]) = EndpointKey(calcInput[3])
    /\ EndpointKey(calcInput[1]) # EndpointKey(calcInput[2])
    /\ calcInput[1].Error = NoError
    /\ calcInput[3].Error = NoError
    /\ calcInput[1].Duration > calcInput[3].Duration

\* C37: for every Result sequence and every endpoint with at least one successful
\* Result, MinDuration <= MedianDuration <= P95Latency <= P99Latency <= MaxDuration and
\* MinDuration <= AverageDuration <= MaxDuration.
C37_LatenciesOrdered ==
    Returned =>
        \A k \in DOMAIN calcOutput.EndpointStats :
              LET stat == calcOutput.EndpointStats[k]
              IN stat.SuccessRequests >= 1 =>
                     /\ stat.MinDuration <= stat.MedianDuration
                     /\ stat.MedianDuration <= stat.P95Latency
                     /\ stat.P95Latency <= stat.P99Latency
                     /\ stat.P99Latency <= stat.MaxDuration
                     /\ stat.MinDuration <= stat.AverageDuration
                     /\ stat.AverageDuration <= stat.MaxDuration

\* The order holds of every returned entry whose URL no other endpoint was measured on,
\* and the average lies between the minimum and the maximum in every returned entry.
SharesURL(stat) ==
    \E i \in 1..Len(calcInput) :
        calcInput[i].URL = stat.URL /\ calcInput[i].Method # stat.Method
LatenciesOrderedOnOwnURL ==
    Returned =>
        \A k \in DOMAIN calcOutput.EndpointStats :
            LET stat == calcOutput.EndpointStats[k]
            IN stat.SuccessRequests >= 1 =>
                   /\ stat.MinDuration <= stat.AverageDuration
                   /\ stat.AverageDuration <= stat.MaxDuration
                   /\ ~SharesURL(stat) =>
                          /\ stat.MinDuration <= stat.MedianDuration
                          /\ stat.MedianDuration <= stat.P95Latency
                          /\ stat.P95Latency <= stat.P99Latency
                          /\ stat.P99Latency <= stat.MaxDuration

(* ----------------------- claims: step numbers ----------------------- *)
\* C38: each LoadTestResult's StepNumber equals its zero-based position in the returned
\* sequence, for both RunUserLoadTest and RunDataLoadTest.
C38_StepNumberIsPosition ==
    /\ \A k \in 1..Len(loadResults) : loadResults[k].StepNumber = k - 1
    /\ \A k \in 1..Len(dataResults) : dataResults[k].StepNumber = k - 1

\* RunUserLoadTest numbers its steps by their position; RunDataLoadTest leaves every
\* StepNumber at zero.
UserStepNumberIsPosition ==
    \A k \in 1..Len(loadResults) : loadResults[k].StepNumber = k - 1
DataStepNumberIsZero ==
    \A k \in 1..Len(dataResults) : dataResults[k].StepNumber = 0

(* ----------------------- claims: the summary's bookkeeping ----------------------- *)
PersistedSummary == ReadSummary(storeSummary)

\* C39: after k successful SaveResults calls on an initially empty store, the persisted
\* summary has RunCount = k and its History lists the k run IDs in save order: the store
\* starts with no summary, and every successful save adds one to the persisted RunCount
\* and appends its run ID to the persisted History.
C39_SummaryCountsEverySave ==
    [][(SaveResultsStep /\ lastErr' = NoErr)
           => /\ ReadSummary(storeSummary').RunCount = PersistedSummary.RunCount + 1
              /\ ReadSummary(storeSummary').History =
                     Append(PersistedSummary.History, lastHistory'.RunID)]_vars

\* What the store holds instead: the summary SaveResults marshalled before it called
\* updateSummary replaces the one updateSummary wrote, so the persisted summary never
\* counts a run, while the trend of every saved run is in it.
SummaryNeverCounts ==
    /\ PersistedSummary.RunCount = 0
    /\ PersistedSummary.History = <<>>
    /\ PersistedSummary.LastRun = 0
TrendsSurviveTheSave ==
    [][(SaveResultsStep /\ lastErr' = NoErr)
           => \A endpoint \in DOMAIN lastHistory'.Statistics.EndpointStats :
                  /\ endpoint \in DOMAIN ReadSummary(storeSummary').Trends
                  /\ ReadSummary(storeSummary').Trends[endpoint] =
                         SaveTrend(lastHistory'.Statistics.EndpointStats[endpoint])]_vars
====
